---- MODULE Spec2Model ----
(***************************************************************************)
(* Model of the endolla_watcher storage engine (storage.py): the           *)
(* port_status event store with change-only ingestion and tiered           *)
(* retention, and the station_fingerprint_jobs work queue.                 *)
(*                                                                         *)
(* Time is counted in ticks, TicksPerSecond of them per second.  Every     *)
(* timestamp is produced by datetime.now().astimezone() or handed in by    *)
(* the caller in that same zone, so the ISO-8601 strings the tables hold   *)
(* order lexicographically as the instants do; a string comparison in SQL  *)
(* is modelled by the comparison of the numbers.  isoformat(timespec=      *)
(* "seconds") drops the sub-second part and is modelled by IsoSeconds.     *)
(* Every SQL statement acts atomically on the committed tables.            *)
(***************************************************************************)
EXTENDS Integers, Sequences, FiniteSets, TLC

NULL == "NULL"
NoTime == 0 - 1

TicksPerSecond == 2
TicksPerMinute == 60 * TicksPerSecond
TicksPerHour == 60 * TicksPerMinute
TicksPerDay == 24 * TicksPerHour

HIGH_DETAIL_DAYS == 7
MEDIUM_DETAIL_DAYS == 30

(* Bounds of the model. *)
MaxClock == 2
MaxNow == 2
MaxJobs == 1
MaxSeqJobs == 2
MaxAttempts == 2
MaxAdvances == 3
MaxRows == 3
MaxRecords == 2
MaxEvents == 3
MaxTime == 3
MaxElapses == 2
MaxRefreshes == 1

Workers == {"w1", "w2"}

VARIABLES
    clock,        \* datetime.now(), in ticks
    port_status,  \* table port_status: a set of rows
    nextRowId,    \* AUTO_INCREMENT of port_status
    snapTs,       \* ts of the latest save_snapshot (NoTime before the first)
    twice,        \* some snapshot so far held two records of one PortKey
    jobs,         \* table station_fingerprint_jobs: jobs[i] is the row with id i
    dq,           \* per worker: position inside dequeue_station_fingerprint_job
    holding,      \* per worker: ids of the jobs dequeue returned to it and it has not completed
    sv,           \* per worker: position inside a concurrent save_snapshot
    advances,     \* number of clock jumps taken (bounded)
    app,          \* app.state of the API: dashboard_version, dashboard_cache, last_fetch
    co,           \* the coroutines of the API: position and locals of each
    last          \* the last operation that ran, with its inputs and its result

vars == <<clock, port_status, nextRowId, snapTs, twice, jobs, dq, holding, sv, advances, app, co, last>>

storeVars == <<port_status, nextRowId, snapTs, twice>>

queueVars == <<jobs, dq, holding>>

apiVars == <<app, co>>

(***************************************************************************)
(* Helpers                                                                 *)
(***************************************************************************)
IsoSeconds(t) == t \div TicksPerSecond

FromIsoSeconds(s) == s * TicksPerSecond

Enumerations(S) ==
    {f \in [1..Cardinality(S) -> S] : \A a \in S : \E i \in 1..Cardinality(S) : f[i] = a}

(***************************************************************************)
(* Event store: port_status                                                *)
(* A row is [id, ts, key, status]; key is the PortKey <<location_id,       *)
(* station_id, port_id>>, each part a string or NULL.  The last_updated    *)
(* column is a payload no statement of the engine reads back in a          *)
(* condition; it is left out.                                              *)
(***************************************************************************)
_truncate_to_hour(ts) == ts \div TicksPerHour

_truncate_to_day(ts) == ts \div TicksPerDay

(* the callable handed to _downsample_range, named by the function it is *)
BucketOf(bucket, ts) ==
    IF bucket = "_truncate_to_hour" THEN _truncate_to_hour(ts) ELSE _truncate_to_day(ts)

RowsOfKey(rows, key) == {r \in rows : r.key = key}

(* SELECT status ... WHERE key <=> key ORDER BY ts DESC LIMIT 1: the rows   *)
(* the statement may return (rows that share the greatest ts are in no      *)
(* defined order).                                                          *)
LatestRows(rows, key) ==
    {r \in RowsOfKey(rows, key) : \A q \in RowsOfKey(rows, key) : q.ts <= r.ts}

InsertDecisions_Global(rows, rec) ==
    {\A r \in RowsOfKey(rows, rec.key) : r.status # rec.status}

(* The decisions the loop of save_snapshot can take for one record:        *)
(* TRUE = append to new_rows, FALSE = continue.                             *)
InsertDecisions(rows, rec) ==
    IF RowsOfKey(rows, rec.key) = {}
    THEN {TRUE}
    ELSE {r.status # rec.status : r \in LatestRows(rows, rec.key)}

(* The ids the INSERT gives to the records chosen for insertion, in order. *)
RECURSIVE NewRows(_, _, _, _, _)
NewRows(recs, ins, ts, firstId, i) ==
    IF i > Len(recs) THEN {}
    ELSE IF ins[i]
         THEN {[id |-> firstId, ts |-> ts, key |-> recs[i].key, status |-> recs[i].status]}
              \cup NewRows(recs, ins, ts, firstId + 1, i + 1)
         ELSE NewRows(recs, ins, ts, firstId, i + 1)

(* _downsample_range: the sets of row ids it may return.  newer_than and   *)
(* older_than are {} for None and {t} for a bound.  The scan is            *)
(* ordered by key and ts; the first row of each (key, bucket) is kept and  *)
(* every later one is listed for deletion.  Rows of one key with equal ts  *)
(* come in no defined order, so either may be the first.                    *)
InRange_Inclusive(rows, newer_than, older_than) ==
    {r \in rows : (\A t \in newer_than : r.ts >= t) /\ (\A t \in older_than : r.ts <= t)}

InRange(rows, newer_than, older_than) ==
    {r \in rows : (\A t \in newer_than : r.ts >= t) /\ (\A t \in older_than : r.ts < t)}

SameBucket(bucket, r, q) ==
    r.key = q.key /\ BucketOf(bucket, r.ts) = BucketOf(bucket, q.ts)

FirstCandidates(bucket, scanned) ==
    {r \in scanned : \A q \in scanned : SameBucket(bucket, r, q) => r.ts <= q.ts}

(* every second row of a bucket is listed, as if the bucket were forgotten  *)
(* once a duplicate of it is found                                          *)
_downsample_range_Pairwise(rows, bucket, newer_than, older_than) ==
    LET scanned == InRange(rows, newer_than, older_than)
        rank(r) == Cardinality({q \in scanned : SameBucket(bucket, r, q)
                                                 /\ (q.ts < r.ts \/ (q.ts = r.ts /\ q.id < r.id))})
    IN  {{r.id : r \in {q \in scanned : rank(q) % 2 = 1}}}

_downsample_range(rows, bucket, newer_than, older_than) ==
    LET scanned == InRange(rows, newer_than, older_than)
        firsts == FirstCandidates(bucket, scanned)
        seens == {K \in SUBSET firsts :
                    \A r \in firsts :
                        Cardinality({k \in K : SameBucket(bucket, r, k)}) = 1}
    IN  {{r.id : r \in scanned \ K} : K \in seens}

_delete_rows(rows, row_ids) == {r \in rows : r.id \notin row_ids}

(* prune_old_data at time now: the tables it may leave.                     *)
prune_old_data(rows, now) ==
    LET high_detail_cutoff == now - HIGH_DETAIL_DAYS * TicksPerDay
        medium_detail_cutoff == now - MEDIUM_DETAIL_DAYS * TicksPerDay
    IN  {_delete_rows(rows, low \cup medium) :
            low \in _downsample_range(rows, "_truncate_to_day", {}, {medium_detail_cutoff}),
            medium \in _downsample_range(rows, "_truncate_to_hour",
                                         {medium_detail_cutoff}, {high_detail_cutoff})}

(* _latest_records: the (key, status) pairs of the rows carrying the       *)
(* greatest ts of their key.                                                *)
_latest_records(rows) ==
    {<<r.key, r.status>> : r \in {r \in rows : r \in LatestRows(rows, r.key)}}

(* _distinct_stations *)
_distinct_stations(rows) ==
    {<<r.key[1], r.key[2]>> : r \in {q \in rows : q.key[2] # NULL}}

(***************************************************************************)
(* Timelines: lists of events [ts, status]                                 *)
(***************************************************************************)
Min(a, b) == IF a <= b THEN a ELSE b

(* sorted(events, key=lambda item: item[0]): the sort is stable, events of *)
(* equal ts keep the order of the list.                                     *)
RECURSIVE SortedByTs(_)
SortedByTs(events) ==
    IF events = <<>> THEN <<>>
    ELSE LET n == Len(events)
             init == SortedByTs(SubSeq(events, 1, n - 1))
             k == Cardinality({i \in 1..(n - 1) : init[i].ts <= events[n].ts})
         IN  SubSeq(init, 1, k) \o <<events[n]>> \o SubSeq(init, k + 1, n - 1)

RECURSIVE IntervalsLoop_Unclamped(_, _, _, _, _)
IntervalsLoop_Unclamped(ordered, i, prev, intervals, end) ==
    IF i > Len(ordered) THEN [prev |-> prev, intervals |-> intervals]
    ELSE IF ordered[i].ts <= prev.ts
         THEN IntervalsLoop_Unclamped(ordered, i + 1, ordered[i], intervals, end)
         ELSE LET appended == Append(intervals, [start |-> prev.ts, stop |-> ordered[i].ts,
                                                 status |-> prev.status])
              IN  IF ordered[i].ts >= end
                  THEN [prev |-> ordered[i], intervals |-> appended]
                  ELSE IntervalsLoop_Unclamped(ordered, i + 1, ordered[i], appended, end)

RECURSIVE IntervalsLoop_FirstWins(_, _, _, _, _)
IntervalsLoop_FirstWins(ordered, i, prev, intervals, end) ==
    IF i > Len(ordered) THEN [prev |-> prev, intervals |-> intervals]
    ELSE IF ordered[i].ts <= prev.ts
         THEN IntervalsLoop_FirstWins(ordered, i + 1, prev, intervals, end)
         ELSE LET segment_end == Min(ordered[i].ts, end)
                  appended == IF segment_end > prev.ts
                              THEN Append(intervals, [start |-> prev.ts, stop |-> segment_end,
                                                      status |-> prev.status])
                              ELSE intervals
              IN  IF ordered[i].ts >= end
                  THEN [prev |-> ordered[i], intervals |-> appended]
                  ELSE IntervalsLoop_FirstWins(ordered, i + 1, ordered[i], appended, end)

(* The loop of _status_intervals over ordered[1:], from the event at i on: *)
(* prev and the intervals when the loop ends or breaks.                     *)
RECURSIVE IntervalsLoop(_, _, _, _, _)
IntervalsLoop(ordered, i, prev, intervals, end) ==
    IF i > Len(ordered) THEN [prev |-> prev, intervals |-> intervals]
    ELSE IF ordered[i].ts <= prev.ts
         THEN IntervalsLoop(ordered, i + 1, ordered[i], intervals, end)
         ELSE LET segment_end == Min(ordered[i].ts, end)
                  appended == IF segment_end > prev.ts
                              THEN Append(intervals, [start |-> prev.ts, stop |-> segment_end,
                                                      status |-> prev.status])
                              ELSE intervals
              IN  IF ordered[i].ts >= end
                  THEN [prev |-> ordered[i], intervals |-> appended]
                  ELSE IntervalsLoop(ordered, i + 1, ordered[i], appended, end)

KeepInterval(iv) == iv.stop > iv.start

_status_intervals(events, end) ==
    IF events = <<>> THEN <<>>
    ELSE LET ordered == SortedByTs(events) IN
         IF ordered[1].ts >= end THEN <<>>
         ELSE LET r == IntervalsLoop(ordered, 2, ordered[1], <<>>, end)
                  intervals == IF r.prev.ts < end
                               THEN Append(r.intervals, [start |-> r.prev.ts, stop |-> end,
                                                         status |-> r.prev.status])
                               ELSE r.intervals
              IN  SelectSeq(intervals, KeepInterval)

RECURSIVE SessionsLoop_Restart(_, _, _, _)
SessionsLoop_Restart(statuses, i, start, sessions) ==
    IF i > Len(statuses) THEN [start |-> start, sessions |-> sessions]
    ELSE IF statuses[i].status = "IN_USE"
         THEN SessionsLoop_Restart(statuses, i + 1, {statuses[i].ts}, sessions)
         ELSE IF start # {}
              THEN SessionsLoop_Restart(statuses, i + 1, {},
                        Append(sessions, statuses[i].ts - (CHOOSE t \in start : TRUE)))
              ELSE SessionsLoop_Restart(statuses, i + 1, start, sessions)

(* The loop of _session_durations from the event at i on; start is {} for  *)
(* None and {ts} for a session begun at ts.  A duration is kept in ticks:  *)
(* the minutes the code returns are that number / TicksPerMinute.           *)
RECURSIVE SessionsLoop(_, _, _, _)
SessionsLoop(statuses, i, start, sessions) ==
    IF i > Len(statuses) THEN [start |-> start, sessions |-> sessions]
    ELSE IF statuses[i].status = "IN_USE"
         THEN SessionsLoop(statuses, i + 1,
                           IF start = {} THEN {statuses[i].ts} ELSE start, sessions)
         ELSE IF start # {}
              THEN SessionsLoop(statuses, i + 1, {},
                        Append(sessions, statuses[i].ts - (CHOOSE t \in start : TRUE)))
              ELSE SessionsLoop(statuses, i + 1, start, sessions)

_session_durations(statuses, now) ==
    LET r == SessionsLoop(statuses, 1, {}, <<>>)
    IN  IF r.start # {}
        THEN Append(r.sessions, now - (CHOOSE t \in r.start : TRUE))
        ELSE r.sessions

(***************************************************************************)
(* Classifier: analyze_chargers                                            *)
(* Rules is [unused_days, long_session_days, long_session_min,             *)
(* unavailable_hours].  A history maps a PortKey to its events in ts       *)
(* order.  The history argument is {} for None and {h} for a map h.        *)
(***************************************************************************)
UNAVAILABLE_STATUSES == {"OUT_OF_ORDER", "UNAVAILABLE"}

Max(a, b) == IF a >= b THEN a ELSE b

(* timedelta(days=max(unused_days, long_session_days, unavailable_hours / 24)) *)
HistoryWindow(rules) ==
    Max(Max(rules.unused_days * TicksPerDay, rules.long_session_days * TicksPerDay),
        rules.unavailable_hours * TicksPerHour)

EventsOf(order) == [i \in 1..Len(order) |-> [ts |-> order[i].ts, status |-> order[i].status]]

(* The lists ORDER BY ... ts may give for the rows of one key (rows of     *)
(* equal ts in either order).                                               *)
EventOrders(rows) ==
    {EventsOf(o) : o \in {f \in Enumerations(rows) :
                             \A i \in 1..Len(f), j \in 1..Len(f) : i < j => f[i].ts <= f[j].ts}}

(* _recent_status_history(conn, since, until): the maps it may return;     *)
(* until is {} for None.                                                    *)
_recent_status_history(rows, since, until) ==
    LET sel == {r \in rows : r.ts >= since /\ \A t \in until : r.ts <= t}
        keys == {r.key : r \in sel}
    IN  {h \in [keys -> UNION {EventOrders(RowsOfKey(sel, k)) : k \in keys}] :
            \A k \in keys : h[k] \in EventOrders(RowsOfKey(sel, k))}

FilterHistory_NoUpperBound(history, earliest, now) ==
    LET Within(e) == earliest <= e.ts
        keys == {k \in DOMAIN history : SelectSeq(history[k], Within) # <<>>}
    IN  [k \in keys |-> SelectSeq(history[k], Within)]

(* The filter applied to a supplied history map. *)
FilterHistory(history, earliest, now) ==
    LET Within(e) == earliest <= e.ts /\ e.ts <= now
        keys == {k \in DOMAIN history : SelectSeq(history[k], Within) # <<>>}
    IN  [k \in keys |-> SelectSeq(history[k], Within)]

(* Stations in the order of the keys of the history map, which is the      *)
(* ORDER BY location_id, station_id, port_id of the query.                  *)
StationOrder == <<<<"L1", "S1">>, <<"L2", "S2">>>>

PortsOf(history, station) ==
    {k \in DOMAIN history : k[1] = station[1] /\ k[2] = station[2]}

EarliestTs(history, ports) ==
    LET T == UNION {{history[k][i].ts : i \in 1..Len(history[k])} : k \in ports}
    IN  CHOOSE t \in T : \A u \in T : t <= u

RuleEvaluated_Always(history_span, window) == TRUE

(* if history_span >= timedelta(...) *)
RuleEvaluated(history_span, window) == history_span >= window

UsedRecently(history, ports, since_unused) ==
    \E k \in ports : \E i \in 1..Len(history[k]) :
        history[k][i].status = "IN_USE" /\ history[k][i].ts >= since_unused

(* long_session_min is in minutes, the durations are in ticks. *)
HasLong(history, ports, since_long, long_session_min, now) ==
    \E k \in ports :
        LET Recent(e) == e.ts >= since_long
            durs == _session_durations(SelectSeq(history[k], Recent), now)
        IN  \E i \in 1..Len(durs) : durs[i] >= long_session_min * TicksPerMinute

AllUnavailable(history, ports, since_unavail) ==
    /\ ports # {}
    /\ \A k \in ports :
          /\ history[k] # <<>>
          /\ history[k][Len(history[k])].status \in UNAVAILABLE_STATUSES
          /\ ~\E i \in 1..Len(history[k]) :
                /\ history[k][i].ts >= since_unavail
                /\ history[k][i].status \notin UNAVAILABLE_STATUSES

(* The reasons list of one station, as rule names in the order the rules   *)
(* are tried; the reason string joins the texts of these rules with ", ".  *)
StationReasons(history, station, rules, now) ==
    LET ports == PortsOf(history, station)
        history_span == now - EarliestTs(history, ports)
        unused ==
            /\ RuleEvaluated(history_span, rules.unused_days * TicksPerDay)
            /\ ~UsedRecently(history, ports, now - rules.unused_days * TicksPerDay)
        no_long ==
            /\ RuleEvaluated(history_span, rules.long_session_days * TicksPerDay)
            /\ ~HasLong(history, ports, now - rules.long_session_days * TicksPerDay,
                        rules.long_session_min, now)
        unavailable ==
            /\ RuleEvaluated(history_span, rules.unavailable_hours * TicksPerHour)
            /\ AllUnavailable(history, ports, now - rules.unavailable_hours * TicksPerHour)
    IN  (IF unused THEN <<"unused">> ELSE <<>>)
        \o (IF no_long THEN <<"no_long">> ELSE <<>>)
        \o (IF unavailable THEN <<"unavailable">> ELSE <<>>)

Flagged_Always(reasons) == TRUE

(* if reasons: problematic.append(...) *)
Flagged(reasons) == reasons # <<>>

Fired(reasons, rule) == \E j \in 1..Len(reasons) : reasons[j] = rule

(* The loop of analyze_chargers over the stations, from station i on.      *)
RECURSIVE AnalyzeLoop(_, _, _, _, _, _, _)
AnalyzeLoop(stations, i, history, rules, now, problematic, rule_counts) ==
    IF i > Len(stations)
    THEN [problematic |-> problematic, rule_counts |-> rule_counts]
    ELSE LET reasons == StationReasons(history, stations[i], rules, now)
             counted == [r \in DOMAIN rule_counts |->
                            IF Fired(reasons, r) THEN rule_counts[r] + 1 ELSE rule_counts[r]]
             listed == IF Flagged(reasons)
                       THEN Append(problematic, [location_id |-> stations[i][1],
                                                 station_id |-> stations[i][2],
                                                 reason |-> reasons])
                       ELSE problematic
         IN  AnalyzeLoop(stations, i + 1, history, rules, now, listed, counted)

(* analyze_chargers(conn, rules, now=now, history=history): the results it *)
(* may return, each with the supplied history as the call leaves it (the   *)
(* code builds a new map and never writes to the one supplied).             *)
analyze_chargers(rows, rules, now, history) ==
    LET earliest == now - HistoryWindow(rules)
        used == IF history = {}
                THEN _recent_status_history(rows, earliest, {now})
                ELSE {FilterHistory(h, earliest, now) : h \in history}
    IN  {LET Present(st) == PortsOf(h, st) # {}
             r == AnalyzeLoop(SelectSeq(StationOrder, Present), 1, h, rules, now, <<>>,
                              [unused |-> 0, no_long |-> 0, unavailable |-> 0])
         IN  [problematic |-> r.problematic, rule_counts |-> r.rule_counts,
              history |-> history] : h \in used}

(***************************************************************************)
(* Utilization: totals of the time a port was monitored, available,        *)
(* occupied and actively charging.  The *_seconds fields are kept in ticks *)
(* (seconds * TicksPerSecond); every ratio the code reports divides two of *)
(* them and is kept as the fraction [num, den] it evaluates, 0 being       *)
(* [num |-> 0, den |-> 1].                                                  *)
(***************************************************************************)
OCCUPIED_STATUSES == {"IN_USE", "FINISHED", "COMPLETED", "OCCUPIED", "CHARGING"}

ACTIVE_CHARGING_STATUSES == {"IN_USE", "CHARGING"}

_empty_totals ==
    [sessions |-> 0, monitored_seconds |-> 0, available_seconds |-> 0,
     occupied_seconds |-> 0, active_seconds |-> 0, port_count |-> 0]

_accumulate_totals_LastSessions(target, source) ==
    [sessions |-> source.sessions,
     monitored_seconds |-> target.monitored_seconds + source.monitored_seconds,
     available_seconds |-> target.available_seconds + source.available_seconds,
     occupied_seconds |-> target.occupied_seconds + source.occupied_seconds,
     active_seconds |-> target.active_seconds + source.active_seconds,
     port_count |-> target.port_count + source.port_count]

_accumulate_totals(target, source) ==
    [sessions |-> target.sessions + source.sessions,
     monitored_seconds |-> target.monitored_seconds + source.monitored_seconds,
     available_seconds |-> target.available_seconds + source.available_seconds,
     occupied_seconds |-> target.occupied_seconds + source.occupied_seconds,
     active_seconds |-> target.active_seconds + source.active_seconds,
     port_count |-> target.port_count + source.port_count]

AddDuration_OccupiedWhatever(totals, status, duration) ==
    [totals EXCEPT
        !.monitored_seconds = @ + duration,
        !.available_seconds =
            IF status # NULL /\ status \notin UNAVAILABLE_STATUSES THEN @ + duration ELSE @,
        !.occupied_seconds = @ + duration,
        !.active_seconds = IF status \in ACTIVE_CHARGING_STATUSES THEN @ + duration ELSE @]

(* The four sums a stretch of duration ticks in one status adds to.         *)
AddDuration(totals, status, duration) ==
    [totals EXCEPT
        !.monitored_seconds = @ + duration,
        !.available_seconds =
            IF status # NULL /\ status \notin UNAVAILABLE_STATUSES THEN @ + duration ELSE @,
        !.occupied_seconds = IF status \in OCCUPIED_STATUSES THEN @ + duration ELSE @,
        !.active_seconds = IF status \in ACTIVE_CHARGING_STATUSES THEN @ + duration ELSE @]

(* The loop of _compute_port_utilization over the intervals.                *)
RECURSIVE UtilizationLoop(_, _, _)
UtilizationLoop(intervals, i, totals) ==
    IF i > Len(intervals) THEN totals
    ELSE IF intervals[i].stop <= intervals[i].start
         THEN UtilizationLoop(intervals, i + 1, totals)
         ELSE UtilizationLoop(intervals, i + 1,
                 AddDuration(totals, intervals[i].status,
                             intervals[i].stop - intervals[i].start))

(* _compute_port_utilization(events, now=now): {} for None, else {totals}.  *)
_compute_port_utilization(events, now) ==
    LET intervals == _status_intervals(events, now)
        sums == UtilizationLoop(intervals, 1, _empty_totals)
    IN  IF intervals = <<>> \/ sums.monitored_seconds <= 0 THEN {}
        ELSE {[sums EXCEPT !.sessions = Len(_session_durations(events, now)),
                           !.port_count = 1]}

(* The loop of _compute_port_usage_between over the intervals: the part of  *)
(* each interval that lies in [start, end).                                 *)
RECURSIVE UsageLoop(_, _, _, _, _)
UsageLoop(intervals, i, start, end, totals) ==
    IF i > Len(intervals) THEN totals
    ELSE IF intervals[i].stop <= start \/ intervals[i].start >= end
         THEN UsageLoop(intervals, i + 1, start, end, totals)
         ELSE LET seg_start == Max(intervals[i].start, start)
                  seg_end == Min(intervals[i].stop, end)
              IN  IF seg_end <= seg_start
                  THEN UsageLoop(intervals, i + 1, start, end, totals)
                  ELSE UsageLoop(intervals, i + 1, start, end,
                          AddDuration(totals, intervals[i].status, seg_end - seg_start))

(* The session loop of _compute_port_usage_between over the sorted events:  *)
(* in_session and session_count when it ends.                               *)
RECURSIVE UsageSessionsLoop(_, _, _, _, _)
UsageSessionsLoop(ordered, i, start, in_session, session_count) ==
    IF i > Len(ordered) THEN [in_session |-> in_session, session_count |-> session_count]
    ELSE IF ordered[i].ts < start
         THEN IF ordered[i].status = "IN_USE"
              THEN UsageSessionsLoop(ordered, i + 1, start, TRUE, session_count)
              ELSE IF in_session
                   THEN UsageSessionsLoop(ordered, i + 1, start, FALSE, session_count + 1)
                   ELSE UsageSessionsLoop(ordered, i + 1, start, in_session, session_count)
         ELSE IF ordered[i].status = "IN_USE"
              THEN UsageSessionsLoop(ordered, i + 1, start, TRUE, session_count)
              ELSE IF in_session
                   THEN UsageSessionsLoop(ordered, i + 1, start, FALSE, session_count + 1)
                   ELSE UsageSessionsLoop(ordered, i + 1, start, in_session, session_count)

(* _compute_port_usage_between(events, start, end): {} for None.            *)
_compute_port_usage_between(events, start, end) ==
    IF events = <<>> \/ end <= start THEN {}
    ELSE LET sums == UsageLoop(_status_intervals(events, end), 1, start, end, _empty_totals)
             r == UsageSessionsLoop(SortedByTs(events), 1, start, FALSE, 0)
             session_count == IF r.in_session THEN r.session_count + 1 ELSE r.session_count
         IN  IF sums.monitored_seconds <= 0 THEN {}
             ELSE {[sums EXCEPT !.sessions = session_count, !.port_count = 1]}

Fraction(num, den) == IF den # 0 THEN [num |-> num, den |-> den] ELSE [num |-> 0, den |-> 1]

(* _format_utilization_metrics: hours = monitored / 3600 and days =         *)
(* monitored / 86400 are zero exactly when monitored_seconds is.            *)
_format_utilization_metrics(totals) ==
    [sessions |-> totals.sessions,
     monitored_seconds |-> totals.monitored_seconds,
     available_seconds |-> totals.available_seconds,
     occupied_seconds |-> totals.occupied_seconds,
     active_seconds |-> totals.active_seconds,
     session_count_per_day |->
        Fraction(totals.sessions * TicksPerDay, totals.monitored_seconds),
     session_count_per_hour |->
        Fraction(totals.sessions * TicksPerHour, totals.monitored_seconds),
     occupation_utilization_pct |->
        Fraction(totals.occupied_seconds * 100, totals.available_seconds),
     active_charging_utilization_pct |->
        Fraction(totals.active_seconds * 100, totals.available_seconds),
     availability_ratio |->
        Fraction(totals.available_seconds, totals.monitored_seconds)]

(* _all_history(conn): the maps it may return.                              *)
_all_history(rows) ==
    LET keys == {r.key : r \in rows}
    IN  {h \in [keys -> UNION {EventOrders(RowsOfKey(rows, k)) : k \in keys}] :
            \A k \in keys : h[k] \in EventOrders(RowsOfKey(rows, k))}

(* The sum, by _accumulate_totals, of the totals per[k] of the keys (per[k] *)
(* is {} where the computation gave None and the key is skipped).           *)
RECURSIVE SumTotals(_, _, _)
SumTotals(per, keys, acc) ==
    IF keys = {} THEN acc
    ELSE LET k == CHOOSE x \in keys : TRUE
         IN  SumTotals(per, keys \ {k},
                       IF per[k] = {} THEN acc
                       ELSE _accumulate_totals(acc, CHOOSE t \in per[k] : TRUE))

(* _utilization_summary(history, now=now): the metrics of the port rows,    *)
(* the station rows, the location rows and the network.                     *)
_utilization_summary(history, now) ==
    LET per == [k \in DOMAIN history |-> _compute_port_utilization(history[k], now)]
        known == {k \in DOMAIN history : per[k] # {}}
        station_keys == {<<k[1], k[2]>> : k \in known}
        location_keys == {k[1] : k \in known}
    IN  [ports |-> [k \in known |->
                      _format_utilization_metrics(CHOOSE t \in per[k] : TRUE)],
         stations |-> [s \in station_keys |->
                      _format_utilization_metrics(
                          SumTotals(per, {k \in known : <<k[1], k[2]>> = s}, _empty_totals))],
         locations |-> [l \in location_keys |->
                      _format_utilization_metrics(
                          SumTotals(per, {k \in known : k[1] = l}, _empty_totals))],
         network |-> _format_utilization_metrics(SumTotals(per, known, _empty_totals))]

(* The loop of _utilization_summary over history.items(), the ports taken  *)
(* in the order of the list: the accumulator of the ports that belong to   *)
(* the group (a station key, a location or the whole network) after the    *)
(* port at i and those behind it.                                          *)
RECURSIVE MergeTotals(_, _, _, _, _)
MergeTotals(per, order, i, group, acc) ==
    IF i > Len(order) THEN acc
    ELSE LET k == order[i]
             member == CASE group.of = "station" -> <<k[1], k[2]>> = group.key
                         [] group.of = "location" -> k[1] = group.key
                         [] group.of = "network" -> TRUE
         IN  MergeTotals(per, order, i + 1, group,
                         IF per[k] # {} /\ member
                         THEN _accumulate_totals(acc, CHOOSE t \in per[k] : TRUE)
                         ELSE acc)

(* station_totals, location_totals and network_totals of                   *)
(* _utilization_summary when history.items() gives the ports in the order  *)
(* of the list.                                                            *)
UtilizationTotals(history, now, order) ==
    LET per == [k \in DOMAIN history |-> _compute_port_utilization(history[k], now)]
        known == {k \in DOMAIN history : per[k] # {}}
    IN  [station_totals |->
            [s \in {<<k[1], k[2]>> : k \in known} |->
                MergeTotals(per, order, 1, [of |-> "station", key |-> s], _empty_totals)],
         location_totals |->
            [l \in {k[1] : k \in known} |->
                MergeTotals(per, order, 1, [of |-> "location", key |-> l], _empty_totals)],
         network_totals |->
            MergeTotals(per, order, 1, [of |-> "network", key |-> NULL], _empty_totals)]

(* _recent_location_history(conn, location_id, since, until): the maps it   *)
(* may return, from <<station_id, port_id>> to the events.                  *)
_recent_location_history(rows, location_id, since, until) ==
    LET sel == {r \in rows : r.key[1] = location_id /\ r.ts >= since /\ r.ts <= until}
        keys == {<<r.key[2], r.key[3]>> : r \in sel}
        of(k) == RowsOfKey(sel, <<location_id, k[1], k[2]>>)
    IN  {h \in [keys -> UNION {EventOrders(of(k)) : k \in keys}] :
            \A k \in keys : h[k] \in EventOrders(of(k))}

(* One entry of _location_usage_timeline: the bucket [current, bucket_end). *)
UsageBucket(history, current, bucket_end) ==
    LET per == [k \in DOMAIN history |->
                    _compute_port_usage_between(history[k], current, bucket_end)]
        bucket_totals == SumTotals(per, DOMAIN history, _empty_totals)
    IN  IF bucket_totals.monitored_seconds > 0
        THEN _format_utilization_metrics(bucket_totals)
        ELSE [_format_utilization_metrics(_empty_totals) EXCEPT
                 !.sessions = bucket_totals.sessions]

(* _location_usage_timeline(history, start, end, step) for an end that is   *)
(* start plus a whole number of steps: entry i is the bucket                *)
(* [start + (i - 1) * step, start + i * step).                               *)
_location_usage_timeline(history, start, end, step) ==
    [i \in 1..((end - start) \div step) |->
        UsageBucket(history, start + (i - 1) * step, Min(start + i * step, end))]

(* location_usage(conn, location_id, now=now): the results it may give, {}  *)
(* for None.                                                                 *)
location_usage(rows, location_id, now) ==
    LET day_start == now - 24 * TicksPerHour
        week_start == now - 7 * TicksPerDay
        usage(history) ==
            LET week == [k \in DOMAIN history |->
                            _compute_port_usage_between(history[k], week_start, now)]
                day == [k \in DOMAIN history |->
                            _compute_port_usage_between(history[k], day_start, now)]
            IN  [summary |->
                   [day |-> _format_utilization_metrics(
                                SumTotals(day, DOMAIN history, _empty_totals)),
                    week |-> _format_utilization_metrics(
                                SumTotals(week, DOMAIN history, _empty_totals))],
                 usage_day |-> _location_usage_timeline(history, day_start, now, TicksPerHour),
                 usage_week |-> _location_usage_timeline(history, week_start, now, TicksPerDay)]
    IN  {IF DOMAIN history = {} THEN {} ELSE {usage(history)} :
            history \in _recent_location_history(rows, location_id, now - 8 * TicksPerDay, now)}

(***************************************************************************)
(* Station fingerprint                                                      *)
(***************************************************************************)
(* reference.replace(hour=0, minute=0, second=0, microsecond=0) *)
MidnightOf(reference) == (reference \div TicksPerDay) * TicksPerDay

_station_fingerprint_range_Rolling(reference) ==
    <<reference - 7 * TicksPerDay, reference>>

(* _station_fingerprint_range(reference): <<start, end>>.                   *)
_station_fingerprint_range(reference) ==
    LET midnight0 == MidnightOf(reference)
        midnight == IF reference < midnight0 THEN midnight0 - TicksPerDay ELSE midnight0
    IN  <<midnight - 7 * TicksPerDay, midnight>>

_distinct_station_ports(rows, location_id, station_id) ==
    {r.key[3] : r \in {q \in rows : q.key[1] = location_id /\ q.key[2] = station_id}}

(* _station_history_between(conn, location_id, station_id, start, end): the *)
(* maps it may return, from port_id to the events.  Every known port gets   *)
(* a list; the rows of [start, end) fill it in ts order; then the latest    *)
(* row before start of each port is put in front (of the rows that share    *)
(* that ts, the one the query returns first).  The empty map is <<>>.       *)
_station_history_between(rows, location_id, station_id, start, end) ==
    LET ports == _distinct_station_ports(rows, location_id, station_id)
        of(p) == RowsOfKey(rows, <<location_id, station_id, p>>)
        inside(p) == {r \in of(p) : r.ts >= start /\ r.ts < end}
        before(p) == {r \in of(p) : r.ts < start}
        previous(p) == {r \in before(p) : \A q \in before(p) : q.ts <= r.ts}
        lists(p) ==
            IF previous(p) = {} THEN EventOrders(inside(p))
            ELSE {IF events = <<>> \/ r.ts < events[1].ts
                  THEN <<[ts |-> r.ts, status |-> r.status]>> \o events
                  ELSE events : events \in EventOrders(inside(p)), r \in previous(p)}
    IN  {h \in [ports -> UNION {lists(p) : p \in ports}] : \A p \in ports : h[p] \in lists(p)}

FingerprintCells == 0..(7 * 24 - 1)

(* len([port for port in history.keys() if port is not None]) *)
port_count(history) == Cardinality({port \in DOMAIN history : port # NULL})

(* The totals of the bucket that starts at bucket_start: the loop over the  *)
(* ports and their intervals cuts every segment at the clock hours and adds *)
(* to this bucket the part of the segment inside                            *)
(* [bucket_start, bucket_start + 1 hour).  intervals[p] is                  *)
(* _status_intervals(history[p], end=end).                                  *)
RECURSIVE BucketTotals(_, _, _, _)
BucketTotals(intervals, ports, bucket_start, totals) ==
    IF ports = {} THEN totals
    ELSE LET p == CHOOSE x \in ports : TRUE
         IN  BucketTotals(intervals, ports \ {p}, bucket_start,
                 UsageLoop(intervals[p], 1, bucket_start, bucket_start + TicksPerHour,
                           totals))

(* One cell of the fingerprint: its metrics and its coverage_ratio.         *)
FingerprintCell(intervals, capacity, current) ==
    LET totals == BucketTotals(intervals, DOMAIN intervals, current, _empty_totals)
    IN  [start |-> current,
         metrics |-> _format_utilization_metrics(totals),
         coverage_ratio |-> Fraction(totals.monitored_seconds, capacity)]

(* station_fingerprint(conn, location_id, station_id, reference=reference): *)
(* the results it may give, {} for None.                                    *)
station_fingerprint(rows, location_id, station_id, reference) ==
    LET range == _station_fingerprint_range(reference)
        start == range[1]
        end == range[2]
        fingerprint(history) ==
            LET intervals == [p \in DOMAIN history |-> _status_intervals(history[p], end)]
                total_capacity_seconds == port_count(history) * TicksPerHour
            IN  [start |-> start, end |-> end, port_count |-> port_count(history),
                 cells |-> [c \in FingerprintCells |->
                              FingerprintCell(intervals, total_capacity_seconds,
                                              start + c * TicksPerHour)]]
    IN  {IF DOMAIN history = {} THEN {} ELSE {fingerprint(history)} :
            history \in _station_history_between(rows, location_id, station_id, start, end)}

(***************************************************************************)
(* Outages of a station: station_events maps a port id to its events.      *)
(***************************************************************************)
UpTo(events, now) ==
    [i \in 1..Cardinality({j \in 1..Len(events) : events[j].ts <= now}) |-> events[i]]

(* The timeline of _station_outage_durations after the sort, port by port: *)
(* the events with ts <= now in ts order.  The events of one ts are        *)
(* applied as one group before station_down() is asked, so their order     *)
(* matters only within a port, where the sort keeps the order of the list  *)
(* and the later event wins.                                                *)
TimelineUpTo(station_events, now) ==
    [p \in DOMAIN station_events |-> UpTo(SortedByTs(station_events[p]), now)]

(* statuses[p] once the groups with ts <= t have been applied; "unset" is  *)
(* the None the dict starts with.                                           *)
StatusAfter(timeline, p, t) ==
    LET seen == {i \in 1..Len(timeline[p]) : timeline[p][i].ts <= t}
    IN  IF seen = {} THEN "unset"
        ELSE timeline[p][CHOOSE i \in seen : \A j \in seen : j <= i].status

station_down_AnyPort(timeline, ports, t) ==
    \E p \in ports : StatusAfter(timeline, p, t) \in UNAVAILABLE_STATUSES

(* station_down() once the groups with ts <= t have been applied; ports    *)
(* are the keys of statuses.                                                *)
station_down(timeline, ports, t) ==
    IF \E p \in ports : StatusAfter(timeline, p, t) \in {"unset", NULL} THEN FALSE
    ELSE /\ ports # {}
         /\ \A p \in ports : StatusAfter(timeline, p, t) \in UNAVAILABLE_STATUSES

(* The loop over the groups of the timeline, from the group at times[i]    *)
(* on; down_start is {} for None.                                           *)
RECURSIVE OutageLoop(_, _, _, _, _, _, _)
OutageLoop(timeline, ports, times, i, current_down, down_start, durations) ==
    IF i > Len(times)
    THEN [current_down |-> current_down, down_start |-> down_start, durations |-> durations]
    ELSE LET ts == times[i]
             prev_down == current_down
             next_down == station_down(timeline, ports, ts)
         IN  IF prev_down /\ ~next_down /\ down_start # {}
             THEN OutageLoop(timeline, ports, times, i + 1, next_down, {},
                             Append(durations, ts - (CHOOSE t \in down_start : TRUE)))
             ELSE IF ~prev_down /\ next_down
                  THEN OutageLoop(timeline, ports, times, i + 1, next_down, {ts}, durations)
                  ELSE OutageLoop(timeline, ports, times, i + 1, next_down, down_start,
                                  durations)

(* The numbers of a set in increasing order: the keys of groupby over the  *)
(* sorted timeline.                                                         *)
RECURSIVE Ascending(_)
Ascending(S) ==
    IF S = {} THEN <<>>
    ELSE LET m == CHOOSE x \in S : \A y \in S : x <= y
         IN  <<m>> \o Ascending(S \ {m})

(* _station_outage_durations(station_events, now=now): the durations, in   *)
(* ticks (the minutes of the code are that number / TicksPerMinute).  The  *)
(* first station_down() is asked while every status is still None and is   *)
(* False.                                                                   *)
_station_outage_durations(station_events, now) ==
    LET timeline == TimelineUpTo(station_events, now)
        ports == {p \in DOMAIN station_events : station_events[p] # <<>>}
        times == Ascending(UNION {{timeline[p][i].ts : i \in 1..Len(timeline[p])} :
                                     p \in DOMAIN timeline})
    IN  IF DOMAIN station_events = {} \/ times = <<>> \/ ports = {} THEN <<>>
        ELSE LET r == OutageLoop(timeline, ports, times, 1, FALSE, {}, <<>>)
             IN  IF r.current_down /\ r.down_start # {}
                 THEN Append(r.durations, now - (CHOOSE t \in r.down_start : TRUE))
                 ELSE r.durations

RECURSIVE SumSeq(_)
SumSeq(s) == IF s = <<>> THEN 0 ELSE s[1] + SumSeq(Tail(s))

(* outage_durations.extend(...) over the stations; the stations come in    *)
(* the order of the dict, which the mean does not depend on.                *)
RECURSIVE Extended(_, _)
Extended(outages, station_keys) ==
    IF station_keys = {} THEN <<>>
    ELSE LET s == CHOOSE x \in station_keys : TRUE
         IN  outages[s] \o Extended(outages, station_keys \ {s})

(* The part of stats_from_db that computes mttr_minutes from the history:  *)
(* the durations of every station and their mean (in ticks).                *)
OutageStats(history, now) ==
    LET station_keys == {<<k[1], k[2]>> : k \in DOMAIN history}
        station_histories ==
            [s \in station_keys |->
                [port \in {k[3] : k \in {x \in DOMAIN history : <<x[1], x[2]>> = s}} |->
                    history[<<s[1], s[2], port>>]]]
        outages == [s \in station_keys |->
                        _station_outage_durations(station_histories[s], now)]
        outage_durations == Extended(outages, station_keys)
    IN  [outages |-> outages,
         mttr_minutes |-> Fraction(SumSeq(outage_durations), Len(outage_durations))]

(***************************************************************************)
(* Job queue: station_fingerprint_jobs                                     *)
(* jobs[i] is the row whose id is i (AUTO_INCREMENT hands out increasing   *)
(* ids; the gaps it may leave change no comparison and are not modelled).  *)
(* Times are stored as isoformat(timespec="seconds") strings: whole        *)
(* seconds.  completed is NoTime for SQL NULL.                              *)
(***************************************************************************)
JobIds(js) == 1..Len(js)

(* UNIQUE KEY uniq_station_schedule (location_id, station_id,              *)
(* scheduled_for): the rows an INSERT of (loc, sta, sched) collides with.  *)
(* A unique index of MySQL never takes two NULLs for equal, so a key with  *)
(* a NULL column collides with nothing.                                     *)
uniq_station_schedule(js, loc, sta, sched) ==
    {i \in JobIds(js) : /\ loc # NULL /\ sta # NULL
                        /\ js[i].location_id = loc
                        /\ js[i].station_id = sta
                        /\ js[i].scheduled_for = sched}

UpsertJob_ResetAttempts(js, loc, sta, scheduled_iso, now_iso) ==
    LET dup == uniq_station_schedule(js, loc, sta, scheduled_iso)
    IN  IF dup = {}
        THEN Append(js, [location_id |-> loc, station_id |-> sta,
                         scheduled_for |-> scheduled_iso, status |-> "pending",
                         attempts |-> 0, last_error |-> NULL,
                         created |-> now_iso, updated |-> now_iso,
                         completed |-> NoTime])
        ELSE [i \in JobIds(js) |->
                IF i \in dup
                THEN [js[i] EXCEPT !.status = "pending", !.updated = now_iso,
                                   !.last_error = NULL, !.attempts = 0]
                ELSE js[i]]

(* One row of the INSERT ... ON DUPLICATE KEY UPDATE of                     *)
(* schedule_station_fingerprints.                                           *)
UpsertJob(js, loc, sta, scheduled_iso, now_iso) ==
    LET dup == uniq_station_schedule(js, loc, sta, scheduled_iso)
    IN  IF dup = {}
        THEN Append(js, [location_id |-> loc, station_id |-> sta,
                         scheduled_for |-> scheduled_iso, status |-> "pending",
                         attempts |-> 0, last_error |-> NULL,
                         created |-> now_iso, updated |-> now_iso,
                         completed |-> NoTime])
        ELSE [i \in JobIds(js) |->
                IF i \in dup
                THEN [js[i] EXCEPT !.status = "pending", !.updated = now_iso,
                                   !.last_error = NULL]
                ELSE js[i]]

RECURSIVE UpsertJobs(_, _, _, _, _)
UpsertJobs(js, stations, scheduled_iso, now_iso, i) ==
    IF i > Len(stations) THEN js
    ELSE UpsertJobs(UpsertJob(js, stations[i][1], stations[i][2], scheduled_iso, now_iso),
                    stations, scheduled_iso, now_iso, i + 1)

(* schedule_station_fingerprints(scheduled_for) at time now: the tables it *)
(* may leave (SELECT DISTINCT returns the stations in no defined order).   *)
schedule_station_fingerprints(js, rows, scheduled_for, now) ==
    LET stations == _distinct_stations(rows)
    IN  IF stations = {} THEN {js}
        ELSE {UpsertJobs(js, order, IsoSeconds(scheduled_for), IsoSeconds(now), 1) :
                order \in Enumerations(stations)}

(* The SELECT of dequeue_station_fingerprint_job: the ids of the pending   *)
(* jobs that are due, and the one ORDER BY scheduled_for, id LIMIT 1 picks. *)
DueJobs(js, now_iso) ==
    {i \in JobIds(js) : js[i].status = "pending" /\ js[i].scheduled_for <= now_iso}

JobBefore(js, i, j) ==
    \/ js[i].scheduled_for < js[j].scheduled_for
    \/ js[i].scheduled_for = js[j].scheduled_for /\ i <= j

SelectJob_ById(js, now_iso) ==
    CHOOSE i \in DueJobs(js, now_iso) : \A j \in DueJobs(js, now_iso) : i <= j

SelectJob(js, now_iso) ==
    CHOOSE i \in DueJobs(js, now_iso) : \A j \in DueJobs(js, now_iso) : JobBefore(js, i, j)

ClaimMatches_NotProcessing(js, job_id) ==
    {i \in JobIds(js) : i = job_id /\ js[i].status # "processing"}

ClaimMatches_NoStatusCheck(js, job_id) ==
    {i \in JobIds(js) : i = job_id}

ClaimMatches_Requeue(js, job_id) ==
    {i \in JobIds(js) : i = job_id /\ js[i].status \in {"pending", "processing"}}

(* The conditional UPDATE of dequeue: the ids of the rows it changes.      *)
ClaimMatches(js, job_id) ==
    {i \in JobIds(js) : i = job_id /\ js[i].status = "pending"}

ClaimJob(js, job_id, now_iso) ==
    [i \in JobIds(js) |->
        IF i \in ClaimMatches(js, job_id)
        THEN [js[i] EXCEPT !.status = "processing", !.attempts = @ + 1,
                           !.updated = now_iso]
        ELSE js[i]]

complete_station_fingerprint_job_AlwaysStamped(js, job_id, status, error, now) ==
    [i \in JobIds(js) |->
        IF i = job_id
        THEN [js[i] EXCEPT !.status = status, !.last_error = error,
                           !.updated = IsoSeconds(now), !.completed = IsoSeconds(now)]
        ELSE js[i]]

(* complete_station_fingerprint_job(job_id, status, error) at time now.    *)
complete_station_fingerprint_job(js, job_id, status, error, now) ==
    LET now_iso == IsoSeconds(now)
        completed_iso == IF status = "completed" THEN now_iso ELSE NoTime
    IN  [i \in JobIds(js) |->
            IF i = job_id
            THEN [js[i] EXCEPT !.status = status, !.last_error = error,
                               !.updated = now_iso, !.completed = completed_iso]
            ELSE js[i]]

(***************************************************************************)
(* Inputs                                                                  *)
(***************************************************************************)
Statuses == {"AVAILABLE", "IN_USE"}

QueueStations == {<<"L1", "S1">>, <<NULL, "S2">>}

TerminalStatuses == {"completed", "failed"}

Errors == {NULL, "boom"}

IdleDq == [pc |-> "idle", now_iso |-> 0, job_id |-> 0, attempts |-> 0,
           clean |-> FALSE, ret |-> "none-yet"]

IdleSv == [pc |-> "idle", recs |-> <<>>, ts |-> NoTime, ins |-> <<>>]

NoOp == [op |-> "init"]

(***************************************************************************)
(* Dashboard cache of the API                                              *)
(* app.state holds dashboard_version, dashboard_cache (cache key ->        *)
(* {"data", "version"}), last_fetch and last_data_update.  A cache key is  *)
(* <<days, granularity>>.  The handlers are coroutines of one event loop:  *)
(* a coroutine runs alone up to its next await of asyncio.to_thread, and   *)
(* the blocks under dashboard_cache_lock hold no await.                    *)
(***************************************************************************)
DashboardCachePresets == <<<<5, "hour">>, <<5, "day">>>>

RECURSIVE OrderedPresets(_, _, _)
OrderedPresets(presets, i, ordered) ==
    IF i > Len(presets) THEN ordered
    ELSE OrderedPresets(presets, i + 1,
                        IF \E j \in 1..Len(ordered) : ordered[j] = presets[i]
                        THEN ordered
                        ELSE Append(ordered, presets[i]))

_cache_presets(configured) ==
    LET AppendMissing(ps, p) ==
            IF \E j \in 1..Len(ps) : ps[j] = p THEN ps ELSE Append(ps, p)
        presets == AppendMissing(AppendMissing(configured, <<5, "hour">>), <<5, "day">>)
    IN  OrderedPresets(presets, 1, <<>>)

(* SELECT MAX(ts) FROM port_status; None is NoTime.                        *)
_latest_snapshot(rows) ==
    IF rows = {} THEN NoTime
    ELSE CHOOSE t \in {r.ts : r \in rows} : \A r \in rows : r.ts <= t

(* The dashboard built from the table as it is when the thread reads it:   *)
(* the parts that tell one table from another are "updated" and the row    *)
(* count of "db"; the statistics in between are functions of the same      *)
(* rows.                                                                   *)
_build_dashboard(rows, last_fetch, daily_days, granularity) ==
    [updated |-> _latest_snapshot(rows),
     db |-> Cardinality(rows),
     daily_days |-> daily_days,
     series_granularity |-> granularity,
     last_fetch |-> last_fetch]

CachePut(cache, cache_key, entry) ==
    [k \in DOMAIN cache \cup {cache_key} |-> IF k = cache_key THEN entry ELSE cache[k]]

CacheHit_AnyVersion(cache, cache_key, version) ==
    cache_key \in DOMAIN cache

(* The test of dashboard on the entry of its key: cached and               *)
(* cached.get("version") == version.                                       *)
CacheHit(cache, cache_key, version) ==
    /\ cache_key \in DOMAIN cache
    /\ cache[cache_key].version = version

(* _warm_dashboard_cache run to its end on an idle event loop.             *)
RECURSIVE Warmed(_, _, _, _, _)
Warmed(cache, rows, last_fetch, version, presets) ==
    IF presets = <<>> THEN cache
    ELSE LET p == Head(presets)
             entry == [data |-> _build_dashboard(rows, last_fetch, p[1], p[2]),
                       version |-> version]
         IN  Warmed(CachePut(cache, p, entry), rows, last_fetch, version, Tail(presets))

(* fetch_once stores the snapshot and returns nothing: the bool that       *)
(* save_snapshot returned to it is dropped.  None is {}.                   *)
fetch_once(saved) == {}

NoData == _build_dashboard({}, NoTime, 5, "day")

(* app.state when on_startup has returned, auto_fetch off, the table empty. *)
AppStart ==
    [dashboard_version |-> 0,
     dashboard_cache |-> Warmed(<<>>, {}, NoTime, 0, _cache_presets(DashboardCachePresets)),
     last_fetch |-> NoTime,
     last_data_update |-> NoTime]

IdleCo ==
    [refresh |-> [pc |-> "idle", saved |-> FALSE, changed |-> {}, version_before |-> 0,
                  version |-> 0, todo |-> <<>>, data |-> NoData, built |-> <<>>,
                  raised |-> <<>>],
     warm |-> [pc |-> "sleeping", version |-> 0, todo |-> <<>>, data |-> NoData],
     get |-> [pc |-> "idle", cache_key |-> <<5, "day">>, version |-> 0, data |-> NoData]]

(***************************************************************************)
(* Operations                                                              *)
(***************************************************************************)

(* save_snapshot(conn, records, ts) run to its end by one caller: the      *)
(* lookups, the INSERT and the prune_old_data that follows it.             *)
save_snapshot(recs, ts) ==
    /\ nextRowId + Len(recs) <= MaxRows + 1
    /\ \E ins \in [1..Len(recs) -> BOOLEAN] :
        /\ \A i \in 1..Len(recs) : ins[i] \in InsertDecisions(port_status, recs[i])
        /\ LET new_rows == NewRows(recs, ins, ts, nextRowId, 1)
               stored == port_status \cup new_rows
           IN  \E pruned \in prune_old_data(stored, clock) :
                 /\ port_status' = pruned
                 /\ nextRowId' = nextRowId + Cardinality(new_rows)
                 /\ snapTs' = ts
                 /\ twice' = (twice \/ \E i \in 1..Len(recs), j \in 1..Len(recs) :
                                           i # j /\ recs[i].key = recs[j].key)
                 /\ last' = [op |-> "save_snapshot", recs |-> recs, ts |-> ts,
                             ins |-> ins, ret |-> (new_rows # {})]
    /\ UNCHANGED <<clock, queueVars, sv, advances>>

(* The caller of the queue has seen a station: save_snapshot of one        *)
(* AVAILABLE record of its port P1, with the timestamp handed in.           *)
RecordStation(st) ==
    /\ save_snapshot(<<[key |-> <<st[1], st[2], "P1">>, status |-> "AVAILABLE"]>>, 0)
    /\ UNCHANGED apiVars

Tick ==
    /\ clock + TicksPerSecond <= MaxClock
    /\ clock' = clock + TicksPerSecond
    /\ last' = [op |-> "tick"]
    /\ UNCHANGED <<storeVars, queueVars, sv, advances, apiVars>>

(* A call of schedule or complete between the SELECT and the UPDATE of a   *)
(* dequeue, or after it: the dequeue records of the workers are no longer  *)
(* those of calls that ran against an otherwise quiet queue.                *)
Disturbed == [w \in Workers |-> [dq[w] EXCEPT !.clean = FALSE]]

Schedule(maxJobs) ==
    \E scheduled_for \in 0..MaxNow :
    \E after \in schedule_station_fingerprints(jobs, port_status, scheduled_for, clock) :
        /\ Len(after) <= maxJobs
        /\ jobs' = after
        /\ dq' = Disturbed
        /\ last' = [op |-> "schedule", scheduled_for |-> scheduled_for]
        /\ UNCHANGED <<clock, storeVars, holding, sv, advances, apiVars>>

(* dequeue_station_fingerprint_job, first statement: the SELECT.  With no  *)
(* row the call returns None here.                                          *)
DequeueSelect(w) ==
    \E now \in 0..MaxNow :
        LET now_iso == IsoSeconds(now) IN
        /\ dq[w].pc = "idle"
        /\ \A i \in JobIds(jobs) : jobs[i].attempts < MaxAttempts
        /\ IF DueJobs(jobs, now_iso) = {}
           THEN /\ dq' = [dq EXCEPT ![w] = [IdleDq EXCEPT !.now_iso = now_iso,
                                                          !.clean = TRUE, !.ret = "None"]]
                /\ last' = [op |-> "dequeue", w |-> w, now |-> now, job_id |-> 0,
                            ret |-> <<>>]
           ELSE LET job_id == SelectJob(jobs, now_iso) IN
                /\ dq' = [dq EXCEPT ![w] = [pc |-> "selected", now_iso |-> now_iso,
                                            job_id |-> job_id,
                                            attempts |-> jobs[job_id].attempts,
                                            clean |-> TRUE, ret |-> "none-yet"]]
                /\ last' = [op |-> "dequeue_select", w |-> w, now |-> now,
                            job_id |-> job_id]
        /\ UNCHANGED <<clock, storeVars, jobs, holding, sv, advances, apiVars>>

(* dequeue_station_fingerprint_job, second statement: the conditional      *)
(* UPDATE, then rollback and None when it changed no row, else commit and  *)
(* the job.                                                                 *)
DequeueClaim(w) ==
    LET job_id == dq[w].job_id
        rowcount == Cardinality(ClaimMatches(jobs, job_id))
    IN
    /\ dq[w].pc = "selected"
    /\ jobs' = ClaimJob(jobs, job_id, dq[w].now_iso)
    /\ IF rowcount = 0
       THEN /\ dq' = [dq EXCEPT ![w] = [@ EXCEPT !.pc = "idle", !.ret = "None"]]
            /\ holding' = holding
            /\ last' = [op |-> "dequeue", w |-> w, now |-> FromIsoSeconds(dq[w].now_iso),
                        job_id |-> job_id, ret |-> <<>>]
       ELSE /\ dq' = [dq EXCEPT ![w] = [@ EXCEPT !.pc = "idle", !.ret = "job"]]
            /\ holding' = [holding EXCEPT ![w] = @ \cup {job_id}]
            /\ last' = [op |-> "dequeue", w |-> w, now |-> FromIsoSeconds(dq[w].now_iso),
                        job_id |-> job_id,
                        ret |-> <<[id |-> job_id,
                                   location_id |-> jobs[job_id].location_id,
                                   station_id |-> jobs[job_id].station_id,
                                   scheduled_for |-> FromIsoSeconds(jobs[job_id].scheduled_for),
                                   attempts |-> dq[w].attempts + 1]>>]
    /\ UNCHANGED <<clock, storeVars, sv, advances, apiVars>>

(* A worker finishes a job dequeue gave it.                                 *)
Complete(w) ==
    \E job_id \in holding[w], status \in TerminalStatuses, error \in Errors :
        /\ jobs' = complete_station_fingerprint_job(jobs, job_id, status, error, clock)
        /\ holding' = [holding EXCEPT ![w] = @ \ {job_id}]
        /\ dq' = Disturbed
        /\ last' = [op |-> "complete", w |-> w, job_id |-> job_id, status |-> status,
                    error |-> error]
        /\ UNCHANGED <<clock, storeVars, sv, advances, apiVars>>

(***************************************************************************)
(* The job queue used by several workers                                   *)
(***************************************************************************)
Init ==
    /\ clock = 0
    /\ port_status = {}
    /\ nextRowId = 1
    /\ snapTs = NoTime
    /\ twice = FALSE
    /\ jobs = <<>>
    /\ dq = [w \in Workers |-> IdleDq]
    /\ holding = [w \in Workers |-> {}]
    /\ sv = [w \in Workers |-> IdleSv]
    /\ advances = 0
    /\ app = AppStart
    /\ co = IdleCo
    /\ last = NoOp

QueueNext ==
    \/ Tick
    \/ RecordStation(<<"L1", "S1">>)
    \/ Schedule(MaxJobs)
    \/ \E w \in Workers : DequeueSelect(w)
    \/ \E w \in Workers : DequeueClaim(w)
    \/ \E w \in Workers : Complete(w)

SpecQueue == Init /\ [][QueueNext]_vars

(***************************************************************************)
(* The job queue with workers that keep polling                            *)
(***************************************************************************)

(* Every worker keeps calling dequeue_station_fingerprint_job with a now   *)
(* that is not before any scheduled_for, and a call that has run its       *)
(* SELECT goes on to its UPDATE.  Nothing is assumed of the callers of     *)
(* schedule and complete.                                                   *)
WorkersKeepPolling ==
    \A w \in Workers :
        /\ WF_vars(DequeueSelect(w) /\ last'.now = MaxNow)
        /\ WF_vars(DequeueClaim(w))

SpecQueueLive == Init /\ [][QueueNext]_vars /\ WorkersKeepPolling

(***************************************************************************)
(* The job queue used by one caller, for every known station                *)
(***************************************************************************)
SeqNext ==
    \/ Tick
    \/ \E st \in QueueStations : RecordStation(st)
    \/ Schedule(MaxSeqJobs)
    \/ DequeueSelect("w1")
    \/ DequeueClaim("w1")
    \/ Complete("w1")

SpecQueueSeq == Init /\ [][SeqNext]_vars

(***************************************************************************)
(* The event store fed by one caller: snapshots taken at the current time, *)
(* one after the other, retention pruning, and the clock moving on.        *)
(***************************************************************************)
StoreKeys == {<<"L1", "S1", "P1">>, <<"L1", "S1", NULL>>}

Records == [key : StoreKeys, status : Statuses]

SnapshotInputs == UNION {[1..n -> Records] : n \in 1..MaxRecords}

ClockSteps ==
    {15 * TicksPerMinute, TicksPerHour, TicksPerDay,
     HIGH_DETAIL_DAYS * TicksPerDay, MEDIUM_DETAIL_DAYS * TicksPerDay}

Advance ==
    \E d \in ClockSteps :
        /\ advances < MaxAdvances
        /\ advances' = advances + 1
        /\ clock' = clock + d
        /\ last' = [op |-> "advance"]
        /\ UNCHANGED <<storeVars, queueVars, sv, apiVars>>

(* fetch_once: save_snapshot(conn, records) with ts = None, so ts is the   *)
(* time of the call; the wall clock has moved on since the call before.    *)
Snapshot ==
    \E recs \in SnapshotInputs :
        /\ clock > snapTs
        /\ save_snapshot(recs, clock)
        /\ UNCHANGED apiVars

(* prune_old_data(conn), as connect() and the tests call it.                *)
Prune ==
    \E pruned \in prune_old_data(port_status, clock) :
        /\ port_status' = pruned
        /\ last' = [op |-> "prune",
                    deleted |-> Cardinality(port_status) - Cardinality(pruned)]
        /\ UNCHANGED <<clock, nextRowId, snapTs, twice, queueVars, sv, advances, apiVars>>

StoreNext ==
    \/ Advance
    \/ Snapshot
    \/ Prune

SpecStore == Init /\ [][StoreNext]_vars

(***************************************************************************)
(* save_snapshot called by several workers on the shared store.  Each SQL  *)
(* statement is one step: the SELECT of the latest status, the INSERT with *)
(* its commit, and the prune_old_data that ends the call.  The snapshots   *)
(* hold one record; ts is None, so it is the time of the call.             *)
(***************************************************************************)
Inserting == {w \in Workers : sv[w].pc = "insert"}

SvLookup(w) ==
    /\ sv[w].pc = "idle"
    /\ nextRowId + Cardinality(Inserting) <= MaxRows
    /\ \E rec \in Records :
       \E ins \in InsertDecisions(port_status, rec) :
            sv' = [sv EXCEPT ![w] = [pc |-> "insert", recs |-> <<rec>>,
                                     ts |-> clock, ins |-> <<ins>>]]
    /\ last' = [op |-> "sv_lookup"]
    /\ UNCHANGED <<clock, storeVars, queueVars, advances, apiVars>>

SvInsert(w) ==
    /\ sv[w].pc = "insert"
    /\ LET new_rows == NewRows(sv[w].recs, sv[w].ins, sv[w].ts, nextRowId, 1)
       IN  /\ port_status' = port_status \cup new_rows
           /\ nextRowId' = nextRowId + Cardinality(new_rows)
    /\ sv' = [sv EXCEPT ![w].pc = "prune"]
    /\ last' = [op |-> "sv_insert"]
    /\ UNCHANGED <<clock, snapTs, twice, queueVars, advances, apiVars>>

SvPrune(w) ==
    /\ sv[w].pc = "prune"
    /\ \E pruned \in prune_old_data(port_status, clock) : port_status' = pruned
    /\ sv' = [sv EXCEPT ![w] = IdleSv]
    /\ last' = [op |-> "sv_prune"]
    /\ UNCHANGED <<clock, nextRowId, snapTs, twice, queueVars, advances, apiVars>>

SnapNext ==
    \/ Tick
    \/ \E w \in Workers : SvLookup(w)
    \/ \E w \in Workers : SvInsert(w)
    \/ \E w \in Workers : SvPrune(w)

SpecSnap == Init /\ [][SnapNext]_vars

(***************************************************************************)
(* The timeline functions applied to every list of at most MaxEvents       *)
(* events with times 0..MaxTime, in any order.                              *)
(***************************************************************************)
EventStatuses == {"IN_USE", "AVAILABLE", NULL}

Events == [ts : 0..MaxTime, status : EventStatuses]

EventLists == UNION {[1..n -> Events] : n \in 0..MaxEvents}

TimelineInit ==
    /\ clock = 0
    /\ port_status = {}
    /\ nextRowId = 1
    /\ snapTs = NoTime
    /\ twice = FALSE
    /\ jobs = <<>>
    /\ dq = [w \in Workers |-> IdleDq]
    /\ holding = [w \in Workers |-> {}]
    /\ sv = [w \in Workers |-> IdleSv]
    /\ advances = 0
    /\ app = AppStart
    /\ co = IdleCo
    /\ last \in [op : {"input"}, events : EventLists, t : 0..(MaxTime + 1)]

StatusIntervals ==
    /\ last.op = "input"
    /\ last' = [op |-> "_status_intervals", events |-> last.events, end |-> last.t,
                ret |-> _status_intervals(last.events, last.t)]
    /\ UNCHANGED <<clock, storeVars, queueVars, sv, advances, apiVars>>

SessionDurations ==
    /\ last.op = "input"
    /\ last' = [op |-> "_session_durations", statuses |-> last.events, now |-> last.t,
                ret |-> _session_durations(last.events, last.t)]
    /\ UNCHANGED <<clock, storeVars, queueVars, sv, advances, apiVars>>

TimelineNext ==
    \/ StatusIntervals
    \/ SessionDurations

SpecTimeline == TimelineInit /\ [][TimelineNext]_vars

(* The filter _count_unused_chargers applies to a supplied history map.    *)
UpToNow(history, now) ==
    LET Before(e) == e.ts <= now
        keys == {k \in DOMAIN history : SelectSeq(history[k], Before) # <<>>}
    IN  [k \in keys |-> SelectSeq(history[k], Before)]

(* _count_unused_chargers(conn, days, now, history): the counts it may     *)
(* return; history is {} for None.                                          *)
_count_unused_chargers(rows, days, now, history) ==
    LET used == IF history = {}
                THEN _all_history(rows)
                ELSE {UpToNow(h, now) : h \in history}
    IN  {LET stations == {<<k[1], k[2]>> : k \in DOMAIN h}
         IN  Cardinality({st \in stations :
                 LET ports == PortsOf(h, st)
                     history_span == now - EarliestTs(h, ports)
                 IN  /\ history_span >= days * TicksPerDay
                     /\ ~UsedRecently(h, ports, now - days * TicksPerDay)})
         : h \in used}

(***************************************************************************)
(* The classifier run on a store fed by snapshots of one record each,      *)
(* taken at increasing times.                                               *)
(***************************************************************************)
AnalyzeKeys == {<<"L1", "S1", "P1">>, <<"L1", "S1", "P2">>, <<"L2", "S2", "P1">>}

AnalyzeStatuses == {"AVAILABLE", "IN_USE", "OUT_OF_ORDER"}

AnalyzeRecords == [key : AnalyzeKeys, status : AnalyzeStatuses]

AnalyzeSteps == {6 * TicksPerHour, TicksPerDay, 8 * TicksPerDay}

(* Rules as test_rule_counts sets them, rules with unused_days = 7, and    *)
(* rules whose largest window is unavailable_hours.                         *)
RuleSets ==
    {[unused_days |-> 1, long_session_days |-> 1, long_session_min |-> 5,
      unavailable_hours |-> 6],
     [unused_days |-> 7, long_session_days |-> 2, long_session_min |-> 5,
      unavailable_hours |-> 24],
     [unused_days |-> 1, long_session_days |-> 1, long_session_min |-> 720,
      unavailable_hours |-> 48]}

Report ==
    \E rec \in AnalyzeRecords :
        /\ clock > snapTs
        /\ save_snapshot(<<rec>>, clock)
        /\ UNCHANGED apiVars

Elapse ==
    \E d \in AnalyzeSteps :
        /\ advances < MaxElapses
        /\ advances' = advances + 1
        /\ clock' = clock + d
        /\ last' = [op |-> "elapse"]
        /\ UNCHANGED <<storeVars, queueVars, sv, apiVars>>

(* analyze_chargers reads the store and writes nothing: a call is taken    *)
(* after a step that changed the store or the clock.                        *)
(* The history maps a caller like timeline_stats fetches ahead: every row  *)
(* from a day before the window of the rules on, later rows included.       *)
Prefetched(rules, now) ==
    _recent_status_history(port_status, now - HistoryWindow(rules) - TicksPerDay, {})

Analyze ==
    \E rules \in RuleSets :
    \E now \in {t \in {clock, clock - 6 * TicksPerHour} : t >= 0} :
    \E history \in {{}} \cup {{h} : h \in Prefetched(rules, now)} :
    \E ret \in analyze_chargers(port_status, rules, now, history) :
        /\ last.op # "analyze_chargers"
        /\ last' = [op |-> "analyze_chargers", rules |-> rules, now |-> now,
                    history |-> history, ret |-> ret]
        /\ UNCHANGED <<clock, storeVars, queueVars, sv, advances, apiVars>>

AnalyzeNext ==
    \/ Report
    \/ Elapse
    \/ Analyze

SpecAnalyze == Init /\ [][AnalyzeNext]_vars

(***************************************************************************)
(* The statistics read from a store fed by snapshots of one record each,   *)
(* taken at increasing times.                                               *)
(***************************************************************************)
StatsKeys == {<<"L1", "S1", "P1">>, <<"L1", "S1", NULL>>, <<"L2", "S2", "P1">>}

StatsStatuses == {"AVAILABLE", "IN_USE", "OUT_OF_ORDER"}

StatsRecords == [key : StatsKeys, status : StatsStatuses]

StatsSteps == {90 * TicksPerMinute, 8 * TicksPerDay}

StatsStations == {<<"L1", "S1">>, <<"L3", "S3">>}

StatsReport ==
    \E rec \in StatsRecords :
        /\ clock > snapTs
        /\ save_snapshot(<<rec>>, clock)
        /\ UNCHANGED apiVars

StatsElapse ==
    \E d \in StatsSteps :
        /\ advances < MaxElapses
        /\ advances' = advances + 1
        /\ clock' = clock + d
        /\ last' = [op |-> "elapse"]
        /\ UNCHANGED <<storeVars, queueVars, sv, apiVars>>

(* The statistics read the store and write nothing: a call is taken after  *)
(* a step that changed the store or the clock.                              *)
AfterChange == last.op \in {"save_snapshot", "elapse"}

(* station_fingerprint for a station, known or not, with the reference a   *)
(* tick before the time of the call or a day after it.                      *)
StationFingerprint ==
    \E st \in StatsStations :
    \E reference \in {clock - 1, clock + TicksPerDay} :
    \E ret \in station_fingerprint(port_status, st[1], st[2], reference) :
        /\ AfterChange
        /\ last' = [op |-> "station_fingerprint", location_id |-> st[1],
                    station_id |-> st[2], reference |-> reference, ret |-> ret]
        /\ UNCHANGED <<clock, storeVars, queueVars, sv, advances, apiVars>>

(* The utilization part of stats_from_db(conn, now=now).                    *)
Utilization ==
    \E history \in _all_history(port_status) :
        /\ AfterChange
        /\ last' = [op |-> "stats_from_db", now |-> clock,
                    utilization |-> _utilization_summary(history, clock)]
        /\ UNCHANGED <<clock, storeVars, queueVars, sv, advances, apiVars>>

LocationUsage ==
    \E st \in StatsStations :
    \E ret \in location_usage(port_status, st[1], clock) :
        /\ AfterChange
        /\ last' = [op |-> "location_usage", location_id |-> st[1], now |-> clock,
                    ret |-> ret]
        /\ UNCHANGED <<clock, storeVars, queueVars, sv, advances, apiVars>>

StatsNext ==
    \/ StatsReport
    \/ StatsElapse
    \/ StationFingerprint
    \/ Utilization
    \/ LocationUsage

SpecStats == Init /\ [][StatsNext]_vars

(***************************************************************************)
(* _compute_port_usage_between applied to every list of at most MaxEvents  *)
(* events in ts order (the order the history queries give) and every       *)
(* window with bounds in 0..MaxTime + 1.                                    *)
(***************************************************************************)
OrderedEventLists ==
    {events \in EventLists :
        \A i \in 1..Len(events), j \in 1..Len(events) :
            i < j => events[i].ts <= events[j].ts}

UsageInit ==
    /\ clock = 0
    /\ port_status = {}
    /\ nextRowId = 1
    /\ snapTs = NoTime
    /\ twice = FALSE
    /\ jobs = <<>>
    /\ dq = [w \in Workers |-> IdleDq]
    /\ holding = [w \in Workers |-> {}]
    /\ sv = [w \in Workers |-> IdleSv]
    /\ advances = 0
    /\ app = AppStart
    /\ co = IdleCo
    /\ last \in [op : {"input"}, events : OrderedEventLists,
                 start : 0..MaxTime, end : 0..(MaxTime + 1)]

UsageBetween ==
    /\ last.op = "input"
    /\ last' = [op |-> "_compute_port_usage_between", events |-> last.events,
                start |-> last.start, end |-> last.end,
                ret |-> _compute_port_usage_between(last.events, last.start, last.end)]
    /\ UNCHANGED <<clock, storeVars, queueVars, sv, advances, apiVars>>

PortUtilization ==
    /\ last.op = "input"
    /\ last' = [op |-> "_compute_port_utilization", events |-> last.events,
                now |-> last.end,
                ret |-> _compute_port_utilization(last.events, last.end)]
    /\ UNCHANGED <<clock, storeVars, queueVars, sv, advances, apiVars>>

UsageNext ==
    \/ UsageBetween
    \/ PortUtilization

SpecUsage == UsageInit /\ [][UsageNext]_vars

(***************************************************************************)
(* The outage statistics applied to every history of at most MaxEvents     *)
(* rows of three ports in two stations, with times 0..MaxTime, at every    *)
(* now in 0..MaxTime + 1.                                                   *)
(***************************************************************************)
OutageStatuses == {"AVAILABLE", "OUT_OF_ORDER", "UNAVAILABLE"}

OutageRows == [key : AnalyzeKeys, ts : 0..MaxTime, status : OutageStatuses]

(* The rows in the order of their timestamps. *)
OutageRowLists ==
    {rows \in UNION {[1..n -> OutageRows] : n \in 0..MaxEvents} :
        \A i \in 1..Len(rows), j \in 1..Len(rows) : i < j => rows[i].ts <= rows[j].ts}

(* The history map of the rows: for every key the events of its rows.      *)
HistoryOf(rows) ==
    [k \in {rows[i].key : i \in 1..Len(rows)} |->
        EventsOf(SelectSeq(rows, LAMBDA r : r.key = k))]

OutageInit ==
    /\ clock = 0
    /\ port_status = {}
    /\ nextRowId = 1
    /\ snapTs = NoTime
    /\ twice = FALSE
    /\ jobs = <<>>
    /\ dq = [w \in Workers |-> IdleDq]
    /\ holding = [w \in Workers |-> {}]
    /\ sv = [w \in Workers |-> IdleSv]
    /\ advances = 0
    /\ app = AppStart
    /\ co = IdleCo
    /\ last \in [op : {"input"}, rows : OutageRowLists, now : 0..(MaxTime + 1)]

Outages ==
    /\ last.op = "input"
    /\ last' = [op |-> "mttr_minutes", history |-> HistoryOf(last.rows), now |-> last.now,
                ret |-> OutageStats(HistoryOf(last.rows), last.now)]
    /\ UNCHANGED <<clock, storeVars, queueVars, sv, advances, apiVars>>

OutageNext == Outages

SpecOutage == OutageInit /\ [][OutageNext]_vars

(***************************************************************************)
(* The API: POST /api/refresh, GET /api/dashboard and the warm loop, over  *)
(* a store fed by the fetches of the refresh.                              *)
(***************************************************************************)
RefreshRecords == [key : {<<"L1", "S1", "P1">>}, status : {"AVAILABLE", "IN_USE"}]

DashboardKeys == {<<5, "day">>, <<7, "day">>}

Warmers == {"refresh", "warm"}

(* refresh -> _fetch_once: the thread runs fetch_once, which stores the    *)
(* records fetched at the time of the call.                                *)
RefreshFetch ==
    \E rec \in RefreshRecords :
        /\ co.refresh.pc = "idle"
        /\ clock > snapTs
        /\ save_snapshot(<<rec>>, clock)
        /\ co' = [co EXCEPT !.refresh = [@ EXCEPT !.pc = "fetched",
                                                  !.saved = last'.ret,
                                                  !.changed = fetch_once(last'.ret),
                                                  !.built = <<>>]]
        /\ UNCHANGED app

(* _fetch_once after the thread: last_fetch, then on a change              *)
(* _handle_data_refresh up to the first build of _warm_dashboard_cache.    *)
(* raised[v] records the latest ts of the table when dashboard_version     *)
(* became v: what the fetch behind version v had committed.                *)
RefreshResume ==
    /\ co.refresh.pc = "fetched"
    /\ IF TRUE \in co.refresh.changed
       THEN LET version == app.dashboard_version + 1
            IN  /\ app' = [app EXCEPT !.last_fetch = clock,
                                      !.last_data_update = clock,
                                      !.dashboard_version = version,
                                      !.dashboard_cache = <<>>]
                /\ co' = [co EXCEPT !.refresh = [@ EXCEPT
                              !.pc = "warming",
                              !.version_before = app.dashboard_version,
                              !.version = version,
                              !.todo = _cache_presets(DashboardCachePresets),
                              !.raised = Append(@, _latest_snapshot(port_status))]]
                /\ last' = [op |-> "_handle_data_refresh"]
       ELSE /\ app' = [app EXCEPT !.last_fetch = clock]
            /\ co' = [co EXCEPT !.refresh = [@ EXCEPT !.pc = "idle"]]
            /\ last' = [op |-> "refresh", saved |-> co.refresh.saved,
                        version_before |-> app.dashboard_version,
                        cleared |-> FALSE, built |-> <<>>]
    /\ UNCHANGED <<clock, storeVars, queueVars, sv, advances>>

(* _dashboard_warm_loop wakes up: _warm_dashboard_cache up to its first    *)
(* build.                                                                  *)
WarmWake ==
    /\ co.warm.pc = "sleeping"
    /\ co' = [co EXCEPT !.warm = [@ EXCEPT !.pc = "warming",
                                           !.version = app.dashboard_version,
                                           !.todo = _cache_presets(DashboardCachePresets)]]
    /\ last' = [op |-> "_warm_dashboard_cache"]
    /\ UNCHANGED <<clock, storeVars, queueVars, sv, advances, app>>

(* The thread of one preset runs _build_dashboard.                         *)
WarmBuild(c) ==
    /\ co[c].pc = "warming"
    /\ LET p == Head(co[c].todo)
       IN  co' = [co EXCEPT ![c] = [@ EXCEPT
                      !.pc = "storing",
                      !.data = _build_dashboard(port_status, app.last_fetch, p[1], p[2])]]
    /\ last' = [op |-> "_build_dashboard", by |-> c]
    /\ UNCHANGED <<clock, storeVars, queueVars, sv, advances, app>>

(* The entry is stored under the lock with the version read at the start   *)
(* of the pass; after the last preset the pass is over.                    *)
WarmStore(c) ==
    /\ co[c].pc = "storing"
    /\ LET p == Head(co[c].todo)
           rest == Tail(co[c].todo)
           entry == [data |-> co[c].data, version |-> co[c].version]
       IN  /\ app' = [app EXCEPT !.dashboard_cache = CachePut(@, p, entry)]
           /\ IF c = "refresh"
              THEN /\ co' = [co EXCEPT !.refresh = [@ EXCEPT
                                 !.pc = IF rest = <<>> THEN "idle" ELSE "warming",
                                 !.todo = rest,
                                 !.built = Append(@, p)]]
                   /\ last' = IF rest = <<>>
                              THEN [op |-> "refresh", saved |-> co.refresh.saved,
                                    version_before |-> co.refresh.version_before,
                                    cleared |-> TRUE,
                                    built |-> Append(co.refresh.built, p)]
                              ELSE [op |-> "stored", by |-> c]
              ELSE /\ co' = [co EXCEPT !.warm = [@ EXCEPT
                                 !.pc = IF rest = <<>> THEN "sleeping" ELSE "warming",
                                 !.todo = rest]]
                   /\ last' = [op |-> "stored", by |-> c]
    /\ UNCHANGED <<clock, storeVars, queueVars, sv, advances>>

(* GET /api/dashboard up to its return or to its build.                    *)
DashboardGet ==
    \E cache_key \in DashboardKeys :
        /\ co.get.pc = "idle"
        /\ LET version == app.dashboard_version
               hit == CacheHit(app.dashboard_cache, cache_key, version)
           IN  IF hit
               THEN /\ last' = [op |-> "dashboard", cache_key |-> cache_key,
                                build |-> FALSE,
                                ret |-> app.dashboard_cache[cache_key].data]
                    /\ UNCHANGED co
               ELSE /\ co' = [co EXCEPT !.get = [@ EXCEPT !.pc = "building",
                                                          !.cache_key = cache_key,
                                                          !.version = version]]
                    /\ last' = [op |-> "dashboard_miss", cache_key |-> cache_key]
        /\ UNCHANGED <<clock, storeVars, queueVars, sv, advances, app>>

DashboardBuild ==
    /\ co.get.pc = "building"
    /\ co' = [co EXCEPT !.get = [@ EXCEPT
                  !.pc = "storing",
                  !.data = _build_dashboard(port_status, app.last_fetch,
                                            co.get.cache_key[1], co.get.cache_key[2])]]
    /\ last' = [op |-> "_build_dashboard", by |-> "get"]
    /\ UNCHANGED <<clock, storeVars, queueVars, sv, advances, app>>

DashboardStore_CurrentVersion ==
    /\ co.get.pc = "storing"
    /\ app' = [app EXCEPT !.dashboard_cache =
                   CachePut(@, co.get.cache_key,
                            [data |-> co.get.data, version |-> app.dashboard_version])]
    /\ co' = [co EXCEPT !.get = [@ EXCEPT !.pc = "idle"]]
    /\ last' = [op |-> "dashboard", cache_key |-> co.get.cache_key, build |-> TRUE,
                ret |-> co.get.data]
    /\ UNCHANGED <<clock, storeVars, queueVars, sv, advances>>

DashboardStore ==
    /\ co.get.pc = "storing"
    /\ app' = [app EXCEPT !.dashboard_cache =
                   CachePut(@, co.get.cache_key,
                            [data |-> co.get.data, version |-> co.get.version])]
    /\ co' = [co EXCEPT !.get = [@ EXCEPT !.pc = "idle"]]
    /\ last' = [op |-> "dashboard", cache_key |-> co.get.cache_key, build |-> TRUE,
                ret |-> co.get.data]
    /\ UNCHANGED <<clock, storeVars, queueVars, sv, advances>>

RefreshNext ==
    \/ StatsElapse
    \/ RefreshFetch
    \/ RefreshResume
    \/ WarmWake
    \/ \E c \in Warmers : WarmBuild(c)
    \/ \E c \in Warmers : WarmStore(c)
    \/ DashboardGet
    \/ DashboardBuild
    \/ DashboardStore

SpecRefresh == Init /\ [][RefreshNext]_vars

(***************************************************************************)
(* The API with a fetch that reports a change or none, as the fetch_once   *)
(* the tests of the API put in place does, and that stores the records     *)
(* fetched before it reports.                                              *)
(***************************************************************************)
ReportedFetch ==
    \E rec \in RefreshRecords, changed \in BOOLEAN :
        /\ co.refresh.pc = "idle"
        /\ clock > snapTs
        /\ save_snapshot(<<rec>>, clock)
        /\ co' = [co EXCEPT !.refresh = [@ EXCEPT !.pc = "fetched",
                                                  !.saved = last'.ret,
                                                  !.changed = {changed},
                                                  !.built = <<>>]]
        /\ UNCHANGED app

DashboardElapse ==
    /\ advances < MaxRefreshes
    /\ advances' = advances + 1
    /\ clock' = clock + TicksPerHour
    /\ last' = [op |-> "elapse"]
    /\ UNCHANGED <<storeVars, queueVars, sv, apiVars>>

DashboardNext ==
    \/ DashboardElapse
    \/ ReportedFetch
    \/ RefreshResume
    \/ WarmWake
    \/ \E c \in Warmers : WarmBuild(c)
    \/ \E c \in Warmers : WarmStore(c)
    \/ DashboardGet
    \/ DashboardBuild
    \/ DashboardStore

SpecDashboard == Init /\ [][DashboardNext]_vars

(***************************************************************************)
(* The readers of port_status over a table whose ts column (VARCHAR) may   *)
(* hold strings that are not timestamps.  A stored string is [sort, value]: *)
(* sort is its place in the collation, which the WHERE and ORDER BY        *)
(* clauses use, and value is what datetime.fromisoformat makes of it: {t}, *)
(* or {} where it raises ValueError.                                       *)
(***************************************************************************)
Isoformat(t) == [sort |-> t, value |-> {t}]

(* '' sorts before every timestamp, 'unknown' after every timestamp.       *)
MalformedTs == {[sort |-> NoTime, value |-> {}], [sort |-> MaxTime + 1, value |-> {}]}

fromisoformat(ts_str) == ts_str.value

ReaderKeys == {<<"L1", "S1", "P1">>, <<"L2", "S2", "P1">>}

RawRows == [key : ReaderKeys,
            ts : {Isoformat(t) : t \in 0..MaxNow} \cup MalformedTs,
            status : {"IN_USE"}]

RawTables == {T \in SUBSET RawRows : Cardinality(T) <= MaxRecords}

Readers == {"_downsample_range", "_recent_status_history", "_all_history",
            "charger_sessions"}

(* The rows the query of the reader returns: _downsample_range is called   *)
(* by prune_old_data with older_than, _recent_status_history and           *)
(* charger_sessions select ts >= since (charger_sessions for one station), *)
(* _all_history selects every row.                                         *)
Selected(reader, table, bound) ==
    CASE reader = "_downsample_range" ->
             {r \in table : r.ts.sort < Isoformat(bound).sort}
      [] reader = "_recent_status_history" ->
             {r \in table : r.ts.sort >= Isoformat(bound).sort}
      [] reader = "_all_history" -> table
      [] reader = "charger_sessions" ->
             {r \in table : /\ r.key[1] = "L1"
                            /\ r.key[2] = "S1"
                            /\ r.ts.sort >= Isoformat(bound).sort}

(* Whether the reader parses the timestamp inside try / except.            *)
CatchesValueError(reader) == reader = "_downsample_range"

(* The loop over the fetched rows: a row that does not parse is skipped    *)
(* where the error is caught, and ends the call with ValueError where it   *)
(* is not.                                                                 *)
ReadRows(reader, table, bound) ==
    LET rows == Selected(reader, table, bound)
        bad == {r \in rows : fromisoformat(r.ts) = {}}
    IN  IF bad # {} /\ ~CatchesValueError(reader)
        THEN [raised |-> TRUE, rows |-> {}]
        ELSE [raised |-> FALSE,
              rows |-> {[key |-> r.key, status |-> r.status,
                         ts |-> CHOOSE t \in fromisoformat(r.ts) : TRUE] :
                        r \in rows \ bad}]

ReadersInit ==
    /\ clock = 0
    /\ port_status = {}
    /\ nextRowId = 1
    /\ snapTs = NoTime
    /\ twice = FALSE
    /\ jobs = <<>>
    /\ dq = [w \in Workers |-> IdleDq]
    /\ holding = [w \in Workers |-> {}]
    /\ sv = [w \in Workers |-> IdleSv]
    /\ advances = 0
    /\ app = AppStart
    /\ co = IdleCo
    /\ last \in [op : {"input"}, table : RawTables, bound : 0..MaxNow]

(* save_snapshot -> prune_old_data -> _downsample_range,                   *)
(* analyze_chargers -> _recent_status_history, stats_from_db ->            *)
(* _all_history, and charger_sessions, up to the end of the loop that      *)
(* loads the rows.                                                         *)
Read(reader) ==
    /\ last.op = "input"
    /\ last' = [op |-> reader, table |-> last.table, bound |-> last.bound,
                ret |-> ReadRows(reader, last.table, last.bound)]
    /\ UNCHANGED <<clock, storeVars, queueVars, sv, advances, apiVars>>

ReadersNext ==
    \/ Read("_downsample_range")
    \/ Read("_recent_status_history")
    \/ Read("_all_history")
    \/ Read("charger_sessions")

SpecReaders == ReadersInit /\ [][ReadersNext]_vars

(***************************************************************************)
(* _utilization_summary as a function of its arguments: a history of three *)
(* ports, two of one station and one of another location, each with up to  *)
(* two events, the ports merged in every order.                            *)
(***************************************************************************)
SummaryKeys == {<<"L1", "S1", "P1">>, <<"L1", "S1", "P2">>, <<"L2", "S2", "P1">>}

SummaryEventLists ==
    {events \in OrderedEventLists :
        /\ Len(events) <= MaxRecords
        /\ \A i \in 1..Len(events) :
              events[i].ts <= 1 /\ events[i].status \in {"IN_USE", "AVAILABLE"}}

SummaryInit ==
    /\ clock = 0
    /\ port_status = {}
    /\ nextRowId = 1
    /\ snapTs = NoTime
    /\ twice = FALSE
    /\ jobs = <<>>
    /\ dq = [w \in Workers |-> IdleDq]
    /\ holding = [w \in Workers |-> {}]
    /\ sv = [w \in Workers |-> IdleSv]
    /\ advances = 0
    /\ app = AppStart
    /\ co = IdleCo
    /\ last \in [op : {"input"}, history : [SummaryKeys -> SummaryEventLists],
                 now : {MaxNow}]

UtilizationSummary ==
    \E order \in Enumerations(SummaryKeys) :
        /\ last.op = "input"
        /\ last' = [op |-> "_utilization_summary", history |-> last.history,
                    now |-> last.now, order |-> order,
                    totals |-> UtilizationTotals(last.history, last.now, order),
                    ret |-> _utilization_summary(last.history, last.now)]
        /\ UNCHANGED <<clock, storeVars, queueVars, sv, advances, apiVars>>

SummaryNext == UtilizationSummary

SpecSummary == SummaryInit /\ [][SummaryNext]_vars

(***************************************************************************)
(* Properties of the job queue                                             *)
(***************************************************************************)
IsDequeueStep == last'.op \in {"dequeue", "dequeue_select"}

ReturnedJob == last.op = "dequeue" /\ last.ret # <<>>

ReturnedNone == last.op = "dequeue" /\ last.ret = <<>>

LexBefore(js, i, j) ==
    \/ js[i].scheduled_for < js[j].scheduled_for
    \/ js[i].scheduled_for = js[j].scheduled_for /\ i <= j

PendingDueAt(js, i, now) ==
    js[i].status = "pending" /\ FromIsoSeconds(js[i].scheduled_for) <= now

(* C1: two dequeue calls that overlap on one pending job (both SELECTs saw *)
(* it pending, nothing but the two calls touched the queue) end with one   *)
(* call holding the job and the other returning None, and attempts of the  *)
(* job is one more than both read.                                          *)
C1_RaceHasOneWinner ==
    \A w \in Workers, v \in Workers :
        (/\ w # v
         /\ dq[w].pc = "idle" /\ dq[v].pc = "idle"
         /\ dq[w].clean /\ dq[v].clean
         /\ dq[w].job_id # 0 /\ dq[w].job_id = dq[v].job_id)
        => /\ {dq[w].ret, dq[v].ret} = {"job", "None"}
           /\ dq[w].attempts = dq[v].attempts
           /\ jobs[dq[w].job_id].attempts = dq[w].attempts + 1
           /\ jobs[dq[w].job_id].status = "processing"

C1_Witness ==
    /\ dq["w1"].pc = "idle" /\ dq["w2"].pc = "idle"
    /\ dq["w1"].clean /\ dq["w2"].clean
    /\ dq["w1"].job_id # 0 /\ dq["w1"].job_id = dq["w2"].job_id
    /\ dq["w1"].ret = "None" /\ dq["w2"].ret = "job"

(* C2: a job is held by at most one worker at a time: no job dequeue gave  *)
(* to one worker, and that worker has not completed, is given to another.  *)
C2_AtMostOneHolder ==
    \A w \in Workers, v \in Workers : w # v => holding[w] \cap holding[v] = {}

(* C3: the SELECT of dequeue(now) picks a job that is pending with         *)
(* scheduled_for <= now and has the smallest (scheduled_for, id) of those, *)
(* and the call returns None when there is none; a call that returns a job *)
(* turned that job, pending and due, to processing and raised its attempts *)
(* by exactly 1, leaving the other jobs alone.                              *)
C3_DequeueEarliestDue ==
    [][/\ (last'.op = "dequeue_select") =>
            /\ PendingDueAt(jobs, last'.job_id, last'.now)
            /\ \A i \in JobIds(jobs) :
                  PendingDueAt(jobs, i, last'.now) => LexBefore(jobs, last'.job_id, i)
       /\ (last'.op = "dequeue" /\ last'.job_id = 0) =>
            /\ last'.ret = <<>>
            /\ \A i \in JobIds(jobs) : ~PendingDueAt(jobs, i, last'.now)
       /\ (last'.op = "dequeue" /\ last'.ret # <<>>) =>
            LET j == last'.ret[1].id IN
            /\ PendingDueAt(jobs, j, last'.now)
            /\ jobs'[j].status = "processing"
            /\ jobs'[j].attempts = jobs[j].attempts + 1
            /\ \A i \in JobIds(jobs) \ {j} : jobs'[i] = jobs[i]
       /\ (last'.op = "dequeue" /\ last'.ret = <<>>) => jobs' = jobs
      ]_vars

C3_Witness ==
    /\ ReturnedJob
    /\ \E i \in JobIds(jobs) :
          /\ i < last.ret[1].id
          /\ PendingDueAt(jobs, i, last.now)
          /\ jobs[last.ret[1].id].scheduled_for < jobs[i].scheduled_for

(* C4: after schedule_station_fingerprints(t) every known station has      *)
(* exactly one job for (location, station, t), and that job is pending     *)
(* with last_error cleared; so a second call with the same t adds no job.  *)
C4_OneJobPerStation ==
    last.op = "schedule" =>
        \A st \in _distinct_stations(port_status) :
            LET mine == {i \in JobIds(jobs) :
                            /\ jobs[i].location_id = st[1]
                            /\ jobs[i].station_id = st[2]
                            /\ jobs[i].scheduled_for = IsoSeconds(last.scheduled_for)}
            IN  /\ Cardinality(mine) = 1
                /\ \A i \in mine : jobs[i].status = "pending" /\ jobs[i].last_error = NULL

(* C5 as claimed: complete stores the status and the error text and        *)
(* records the completion time, for completed and for failed.               *)
C5_CompletionTimeAlways ==
    last.op = "complete" =>
        /\ jobs[last.job_id].status = last.status
        /\ jobs[last.job_id].last_error = last.error
        /\ jobs[last.job_id].completed = IsoSeconds(clock)

(* C5 as amended: complete stores the status and the error text; it        *)
(* records the completion time when the status is completed and sets the   *)
(* completed column to NULL when the status is failed.                      *)
C5_CompletionTimeOnlyCompleted ==
    last.op = "complete" =>
        /\ jobs[last.job_id].status = last.status
        /\ jobs[last.job_id].last_error = last.error
        /\ last.status = "completed" => jobs[last.job_id].completed = IsoSeconds(clock)
        /\ last.status = "failed" => jobs[last.job_id].completed = NoTime

C5_Witness ==
    /\ last.op = "complete" /\ last.status = "failed" /\ last.error = "boom"
    /\ jobs[last.job_id].status = "failed"
    /\ jobs[last.job_id].completed = NoTime
    /\ jobs[last.job_id].attempts > 1

(* C6: no step of dequeue, at any now, changes a job that is processing or *)
(* returns it.                                                              *)
C6_ProcessingStaysProcessing ==
    [][IsDequeueStep =>
        \A i \in JobIds(jobs) :
            jobs[i].status = "processing" =>
                /\ jobs'[i] = jobs[i]
                /\ (last'.op = "dequeue" /\ last'.ret # <<>>) => last'.ret[1].id # i
      ]_vars

C6_Witness ==
    /\ ReturnedNone
    /\ \E i \in JobIds(jobs) :
          /\ jobs[i].status = "processing"
          /\ FromIsoSeconds(jobs[i].scheduled_for) < last.now
          /\ \E v \in Workers \ {last.w} : i \in holding[v]

(***************************************************************************)
(* Properties of the event store                                           *)
(***************************************************************************)
SameKeyRows(rows, k) == {r \in rows : r.key[1] = k[1] /\ r.key[2] = k[2] /\ r.key[3] = k[3]}

MostRecentStatuses(rows, k) ==
    {r.status : r \in {q \in SameKeyRows(rows, k) :
                          \A m \in SameKeyRows(rows, k) : m.ts <= q.ts}}

Occurrences(recs, k, s) ==
    Cardinality({i \in 1..Len(recs) : recs[i].key = k /\ recs[i].status = s})

(* What one save_snapshot step stores: for a PortKey k and a status s the  *)
(* snapshot reports, a row per record when k has no stored row or the      *)
(* status of its most recent stored row differs from s, and no row when    *)
(* that status is s.  (When several rows of k share the greatest ts, the   *)
(* most recent row is any of them.)                                         *)
InsertRule ==
    last'.op = "save_snapshot" =>
        \A i \in 1..Len(last'.recs) :
            LET k == last'.recs[i].key
                s == last'.recs[i].status
                recent == MostRecentStatuses(port_status, k)
                stored == Cardinality({r \in port_status' :
                                          r.id >= nextRowId /\ r.key = k /\ r.status = s
                                          /\ r.ts = last'.ts})
            IN  /\ s \notin recent => stored = Occurrences(last'.recs, k, s)
                /\ recent = {s} => stored = 0
                /\ stored <= Occurrences(last'.recs, k, s)

TimeAdjacent(rows, r, q) ==
    /\ r # q /\ r.key = q.key /\ r.ts <= q.ts
    /\ ~\E m \in rows : m.key = r.key /\ r.ts < m.ts /\ m.ts < q.ts

InFullDetail(r, now) == r.ts >= now - HIGH_DETAIL_DAYS * TicksPerDay

(* C7 as claimed: save_snapshot stores a row for a record iff the device   *)
(* has no stored row or its most recent stored status differs; so, with    *)
(* snapshots of the fleet (every PortKey at most once in a snapshot) taken *)
(* one after the other at increasing times, no two time-adjacent rows of   *)
(* one PortKey carry the same status.                                       *)
C7_AdjacentRowsDiffer ==
    [][/\ InsertRule
       /\ ~twice' =>
             \A r \in port_status', q \in port_status' :
                 TimeAdjacent(port_status', r, q) => r.status # q.status
      ]_vars

(* C7 as amended: the same rule for what is stored; with such snapshots no *)
(* two time-adjacent rows of one PortKey that both lie inside the          *)
(* full-detail window (the last HIGH_DETAIL_DAYS days) carry the same      *)
(* status.                                                                  *)
C7_AdjacentRowsDifferInFullDetail ==
    [][/\ InsertRule
       /\ ~twice' =>
             \A r \in port_status', q \in port_status' :
                 (/\ TimeAdjacent(port_status', r, q)
                  /\ InFullDetail(r, clock') /\ InFullDetail(q, clock'))
                 => r.status # q.status
      ]_vars

C7_Witness ==
    /\ last.op = "save_snapshot" /\ ~twice
    /\ \E i \in 1..Len(last.recs) : ~last.ins[i]
    /\ \E r \in port_status, q \in port_status :
          /\ TimeAdjacent(port_status, r, q)
          /\ InFullDetail(r, clock) /\ InFullDetail(q, clock)

(* C8: with several workers running save_snapshot concurrently, no two     *)
(* time-adjacent rows of a PortKey inside the full-detail window have      *)
(* equal status: two workers reporting the same new status for a PortKey   *)
(* store at most one row for that change.                                   *)
C8_ConcurrentDedup ==
    \A r \in port_status, q \in port_status :
        (/\ TimeAdjacent(port_status, r, q)
         /\ InFullDetail(r, clock) /\ InFullDetail(q, clock))
        => r.status # q.status

GreatestTs(rows, k) == {r.ts : r \in {q \in SameKeyRows(rows, k) :
                                          \A m \in SameKeyRows(rows, k) : m.ts <= q.ts}}

(* C9: prune_old_data never deletes the row with the greatest timestamp of *)
(* a PortKey: after it every PortKey has a row at the greatest timestamp   *)
(* it had before, and no other latest status than before.                   *)
C9_PruneKeepsLatestRow ==
    [][last'.op = "prune" =>
        \A k \in StoreKeys :
            /\ GreatestTs(port_status', k) = GreatestTs(port_status, k)
            /\ MostRecentStatuses(port_status', k) \subseteq MostRecentStatuses(port_status, k)
      ]_vars

(* C10: with the clock fixed, a second prune_old_data right after a first  *)
(* deletes nothing: it can leave no other table than the one it finds.     *)
C10_PruneIdempotent ==
    last.op = "prune" => prune_old_data(port_status, clock) = {port_status}

C10_Witness ==
    /\ last.op = "prune" /\ last.deleted > 0
    /\ \E r \in port_status, q \in port_status : r # q /\ r.key = q.key

(* The retention tiers at time now: rows aged between HIGH_DETAIL_DAYS and *)
(* MEDIUM_DETAIL_DAYS days, and rows older than MEDIUM_DETAIL_DAYS days.   *)
InMediumDetail(r, now) ==
    /\ r.ts < now - HIGH_DETAIL_DAYS * TicksPerDay
    /\ r.ts >= now - MEDIUM_DETAIL_DAYS * TicksPerDay

InLowDetail(r, now) == r.ts < now - MEDIUM_DETAIL_DAYS * TicksPerDay

SameHour(r, q) == r.key = q.key /\ _truncate_to_hour(r.ts) = _truncate_to_hour(q.ts)

SameDay(r, q) == r.key = q.key /\ _truncate_to_day(r.ts) = _truncate_to_day(q.ts)

(* C11: a prune_old_data step deletes no row newer than 7 days; after it a *)
(* PortKey has at most one row per clock-hour among the rows aged 7 to 30  *)
(* days and at most one row per clock-day among the rows older than 30     *)
(* days; and a row it keeps in such a bucket is no later than any row of   *)
(* the bucket it deleted.                                                   *)
C11_PruneTiers ==
    [][last'.op = "prune" =>
        /\ port_status' \subseteq port_status
        /\ \A r \in port_status : InFullDetail(r, clock) => r \in port_status'
        /\ \A r \in port_status', q \in port_status' :
              /\ (InMediumDetail(r, clock) /\ InMediumDetail(q, clock) /\ SameHour(r, q))
                    => r = q
              /\ (InLowDetail(r, clock) /\ InLowDetail(q, clock) /\ SameDay(r, q))
                    => r = q
        /\ \A r \in port_status', q \in port_status \ port_status' :
              /\ (InMediumDetail(r, clock) /\ InMediumDetail(q, clock) /\ SameHour(r, q))
                    => r.ts <= q.ts
              /\ (InLowDetail(r, clock) /\ InLowDetail(q, clock) /\ SameDay(r, q))
                    => r.ts <= q.ts
      ]_vars

C11_Witness ==
    /\ last.op = "prune" /\ last.deleted > 0
    /\ \E r \in port_status : InFullDetail(r, clock)
    /\ \E r \in port_status : InMediumDetail(r, clock) \/ InLowDetail(r, clock)

(***************************************************************************)
(* Properties of the timeline functions                                    *)
(***************************************************************************)
(* The status a list of events holds at time t: that of the latest event   *)
(* at or before t, the last listed of those when several share its ts.      *)
HoldersAt(events, t) ==
    {i \in 1..Len(events) :
        /\ events[i].ts <= t
        /\ \A j \in 1..Len(events) :
              events[j].ts <= t =>
                  \/ events[j].ts < events[i].ts
                  \/ events[j].ts = events[i].ts /\ j <= i}

FirstEventTime(events) ==
    CHOOSE t \in {events[i].ts : i \in 1..Len(events)} :
        \A i \in 1..Len(events) : t <= events[i].ts

(* C12: for a non-empty timeline whose first event is before end, the      *)
(* intervals of _status_intervals tile [first event time, end): the first  *)
(* starts at the first event, each next starts where the one before ends,  *)
(* the last ends at end, every interval has end > start, and its status is *)
(* the status the timeline holds at its start.                              *)
C12_IntervalsTile ==
    (/\ last.op = "_status_intervals"
     /\ last.events # <<>>
     /\ FirstEventTime(last.events) < last.end)
    => LET iv == last.ret
           n == Len(iv)
       IN  /\ n >= 1
           /\ iv[1].start = FirstEventTime(last.events)
           /\ \A i \in 1..(n - 1) : iv[i + 1].start = iv[i].stop
           /\ iv[n].stop = last.end
           /\ \A i \in 1..n :
                 /\ iv[i].stop > iv[i].start
                 /\ \A h \in HoldersAt(last.events, iv[i].start) :
                       iv[i].status = last.events[h].status
                 /\ HoldersAt(last.events, iv[i].start) # {}

C12_Witness ==
    /\ last.op = "_status_intervals"
    /\ Len(last.ret) = 2
    /\ Len(last.events) = 3
    /\ last.events[1].ts > last.events[2].ts
    /\ last.events[3].ts > last.end
    /\ last.events[2].ts = last.events[3].ts - 3

(* C32: _status_intervals of an empty timeline is empty; where several     *)
(* events share a timestamp, at most one interval starts at it, that       *)
(* interval has the status of the one listed last of them, and no interval *)
(* has zero length.                                                        *)
C32_LaterWriteWins ==
    last.op = "_status_intervals" =>
        /\ last.events = <<>> => last.ret = <<>>
        /\ \A k \in 1..Len(last.ret) : last.ret[k].stop > last.ret[k].start
        /\ \A i \in 1..Len(last.events), j \in 1..Len(last.events) :
              (/\ i < j
               /\ last.events[i].ts = last.events[j].ts
               /\ \A m \in (j + 1)..Len(last.events) :
                      last.events[m].ts # last.events[j].ts)
              => /\ Cardinality({k \in 1..Len(last.ret) :
                                    last.ret[k].start = last.events[j].ts}) <= 1
                 /\ \A k \in 1..Len(last.ret) :
                        last.ret[k].start = last.events[j].ts =>
                            last.ret[k].status = last.events[j].status

(* Three events at one instant, the last of a status the others do not     *)
(* have, and a later end: the one interval holds the status of the last.   *)
C32_Witness ==
    /\ last.op = "_status_intervals"
    /\ Len(last.events) = 3
    /\ last.events[1].ts = last.events[2].ts
    /\ last.events[2].ts = last.events[3].ts
    /\ last.events[1].status # last.events[3].status
    /\ last.events[2].status # last.events[3].status
    /\ last.events[3].ts < last.end
    /\ Len(last.ret) = 1
    /\ last.ret[1].status = last.events[3].status

RunStarts(statuses) ==
    {i \in 1..Len(statuses) :
        /\ statuses[i].status = "IN_USE"
        /\ i = 1 \/ statuses[i - 1].status # "IN_USE"}

RunClosers(statuses, i) ==
    {j \in (i + 1)..Len(statuses) :
        /\ statuses[j].status # "IN_USE"
        /\ \A m \in i..(j - 1) : statuses[m].status = "IN_USE"}

(* C13: _session_durations returns one duration per maximal run of         *)
(* consecutive IN_USE events, in the order of the runs: the time from the  *)
(* first IN_USE event of the run to the event that closes it, or to now    *)
(* for a run still open at the end of the list; a list without an IN_USE   *)
(* event yields no session.                                                 *)
C13_OneDurationPerRun ==
    last.op = "_session_durations" =>
        LET statuses == last.statuses
            starts == RunStarts(statuses)
        IN  /\ Len(last.ret) = Cardinality(starts)
            /\ \A i \in starts :
                  LET k == Cardinality({j \in starts : j <= i})
                      closers == RunClosers(statuses, i)
                  IN  /\ \A j \in closers : last.ret[k] = statuses[j].ts - statuses[i].ts
                      /\ closers = {} => last.ret[k] = last.now - statuses[i].ts
            /\ (\A i \in 1..Len(statuses) : statuses[i].status # "IN_USE") => last.ret = <<>>

C13_Witness ==
    /\ last.op = "_session_durations"
    /\ Len(last.statuses) = 3
    /\ last.statuses[1].status = "IN_USE" /\ last.statuses[2].status = "IN_USE"
    /\ last.statuses[3].status = "AVAILABLE"
    /\ last.statuses[1].ts < last.statuses[2].ts /\ last.statuses[2].ts < last.statuses[3].ts
    /\ last.ret = <<last.statuses[3].ts - last.statuses[1].ts>>

(***************************************************************************)
(* Properties of the classifier.  They are read off the stored rows: the   *)
(* rows of a station at or before now are its history.                      *)
(***************************************************************************)
Analyzed == last.op = "analyze_chargers"

RuleNames == {"unused", "no_long", "unavailable"}

WindowOf(rules, rule) ==
    IF rule = "unused" THEN rules.unused_days * TicksPerDay
    ELSE IF rule = "no_long" THEN rules.long_session_days * TicksPerDay
    ELSE rules.unavailable_hours * TicksPerHour

StationsOfStore == {<<k[1], k[2]>> : k \in AnalyzeKeys}

(* rows of station st at or before now, and those the call looks at *)
StoredRows(st, now) ==
    {r \in port_status : r.key[1] = st[1] /\ r.key[2] = st[2] /\ r.ts <= now}

ObservedRows(st, rules, now) ==
    {r \in StoredRows(st, now) : r.ts >= now - HistoryWindow(rules)}

SpanOf(rows, now) == now - (CHOOSE t \in {r.ts : r \in rows} : \A r \in rows : t <= r.ts)

Entries(ret, st) ==
    {i \in 1..Len(ret.problematic) :
        /\ ret.problematic[i].location_id = st[1]
        /\ ret.problematic[i].station_id = st[2]}

ListedReasons(ret, st) ==
    UNION {{ret.problematic[i].reason[j] : j \in 1..Len(ret.problematic[i].reason)} :
              i \in Entries(ret, st)}

(* the rule is evaluated for the station: the history the call looks at    *)
(* reaches back at least the window of the rule                             *)
Evaluated(st, rules, now, rule) ==
    /\ ObservedRows(st, rules, now) # {}
    /\ SpanOf(ObservedRows(st, rules, now), now) >= WindowOf(rules, rule)

(* the stored timeline of a port up to now (the snapshots of this          *)
(* specification come at increasing times: no two rows of a port share ts) *)
StoredTimeline(k, now) ==
    CHOOSE o \in EventOrders({r \in port_status : r.key = k /\ r.ts <= now}) : TRUE

PortsOfStation(st, now) == {r.key : r \in StoredRows(st, now)}

(* C14: a rule whose window exceeds the history span of a station (now     *)
(* minus the earliest event of the station the call looks at) adds no      *)
(* reason for it and is not counted for it; a station with less history    *)
(* than every window is not listed.                                         *)
C14_SkippedRulesAddNothing ==
    Analyzed =>
        /\ \A st \in StationsOfStore, rule \in RuleNames :
              ~Evaluated(st, last.rules, last.now, rule)
                  => rule \notin ListedReasons(last.ret, st)
        /\ \A rule \in RuleNames :
              last.ret.rule_counts[rule] <=
                  Cardinality({st \in StationsOfStore :
                                  Evaluated(st, last.rules, last.now, rule)})
        /\ \A st \in StationsOfStore :
              (\A rule \in RuleNames : ~Evaluated(st, last.rules, last.now, rule))
                  => Entries(last.ret, st) = {}

C14_Witness ==
    /\ Analyzed
    /\ \E st \in StationsOfStore :
          /\ ~Evaluated(st, last.rules, last.now, "unused")
          /\ Evaluated(st, last.rules, last.now, "unavailable")
          /\ \A r \in StoredRows(st, last.now) : r.status = "OUT_OF_ORDER"
          /\ ListedReasons(last.ret, st) = {"unavailable"}
    /\ \E st \in StationsOfStore :
          /\ StoredRows(st, last.now) # {}
          /\ \A rule \in RuleNames : ~Evaluated(st, last.rules, last.now, rule)

(* C15: with unused_days = 7 a station whose whole history is 6 hours long *)
(* is not flagged as unused, and a station whose stored history starts 8   *)
(* days before now and is AVAILABLE throughout is flagged as unused.        *)
C15_UnusedNeedsHistory ==
    (Analyzed /\ last.rules.unused_days = 7) =>
        \A st \in StationsOfStore :
            LET rows == StoredRows(st, last.now) IN
            rows # {} =>
                /\ SpanOf(rows, last.now) = 6 * TicksPerHour
                      => "unused" \notin ListedReasons(last.ret, st)
                /\ (/\ SpanOf(rows, last.now) = 8 * TicksPerDay
                    /\ \A r \in rows : r.status = "AVAILABLE")
                      => "unused" \in ListedReasons(last.ret, st)

ShowsInUse(k, since, now) ==
    LET tl == StoredTimeline(k, now)
    IN  \E i \in 1..Len(tl) :
            /\ tl[i].status = "IN_USE"
            /\ tl[i].ts >= since \/ i \in HoldersAt(tl, since)

(* C16: when the unused rule is evaluated for a station, it fires iff no   *)
(* port of the station has status IN_USE at any instant of                 *)
(* [now - unused_days, now].                                                *)
C16_UnusedIffNeverInUse ==
    Analyzed =>
        \A st \in StationsOfStore :
            Evaluated(st, last.rules, last.now, "unused") =>
                ("unused" \in ListedReasons(last.ret, st)
                 <=> ~\E k \in PortsOfStation(st, last.now) :
                        ShowsInUse(k, last.now - last.rules.unused_days * TicksPerDay,
                                   last.now))

LongSessionWithin(k, since, now, long_session_min) ==
    LET tl == StoredTimeline(k, now)
    IN  \E i \in RunStarts(tl) :
            LET closers == RunClosers(tl, i)
                stop == IF closers = {} THEN now ELSE tl[CHOOSE j \in closers : TRUE].ts
            IN  stop - Max(tl[i].ts, since) >= long_session_min * TicksPerMinute

(* C17: when the no-long-session rule is evaluated for a station, it fires *)
(* iff no port of the station has a session, closed or still in progress   *)
(* at now, that lasts at least long_session_min minutes within the last    *)
(* long_session_days.                                                       *)
C17_NoLongIffNoLongSession ==
    Analyzed =>
        \A st \in StationsOfStore :
            Evaluated(st, last.rules, last.now, "no_long") =>
                ("no_long" \in ListedReasons(last.ret, st)
                 <=> ~\E k \in PortsOfStation(st, last.now) :
                        LongSessionWithin(k,
                            last.now - last.rules.long_session_days * TicksPerDay,
                            last.now, last.rules.long_session_min))

(* C18: when the unavailable rule is evaluated for a station, it fires iff *)
(* the most recent status at now of every port of the station is           *)
(* OUT_OF_ORDER or UNAVAILABLE and no port has an event with another       *)
(* status within the last unavailable_hours.                                *)
C18_UnavailableIffAllPortsDown ==
    Analyzed =>
        \A st \in StationsOfStore :
            Evaluated(st, last.rules, last.now, "unavailable") =>
                ("unavailable" \in ListedReasons(last.ret, st)
                 <=> /\ \A k \in PortsOfStation(st, last.now) :
                           LET tl == StoredTimeline(k, last.now)
                           IN  tl[Len(tl)].status \in UNAVAILABLE_STATUSES
                     /\ \A r \in StoredRows(st, last.now) :
                           r.ts >= last.now - last.rules.unavailable_hours * TicksPerHour
                               => r.status \in UNAVAILABLE_STATUSES)

(* the rules that fire for a station, by the rule conditions on the        *)
(* history the call looks at                                                *)
FiringRules(st, rules, now) ==
    IF ObservedRows(st, rules, now) = {} THEN {}
    ELSE LET h == CHOOSE m \in _recent_status_history(port_status,
                                   now - HistoryWindow(rules), {now}) : TRUE
         IN  {rule \in RuleNames : Fired(StationReasons(h, st, rules, now), rule)}

(* C19: in the result of analyze_chargers a station is listed at most      *)
(* once, and iff a rule fired for it; its reason lists exactly the rules   *)
(* that fired, each once; rule_counts[r] is the number of listed stations  *)
(* for which r fired; so every count <= len(problematic) <= sum of counts. *)
C19_ListAndCountsAgree ==
    Analyzed =>
        LET ret == last.ret
            n == Len(ret.problematic)
        IN  /\ \A st \in StationsOfStore :
                  /\ Cardinality(Entries(ret, st)) <= 1
                  /\ Entries(ret, st) # {} <=> FiringRules(st, last.rules, last.now) # {}
                  /\ ListedReasons(ret, st) = FiringRules(st, last.rules, last.now)
                  /\ \A i \in Entries(ret, st) :
                        Len(ret.problematic[i].reason) = Cardinality(ListedReasons(ret, st))
            /\ \A i \in 1..n : \E st \in StationsOfStore : i \in Entries(ret, st)
            /\ \A rule \in RuleNames :
                  /\ ret.rule_counts[rule] =
                        Cardinality({i \in 1..n : Fired(ret.problematic[i].reason, rule)})
                  /\ ret.rule_counts[rule] <= n
            /\ n <= ret.rule_counts["unused"] + ret.rule_counts["no_long"]
                        + ret.rule_counts["unavailable"]

C19_Witness ==
    /\ Analyzed
    /\ Len(last.ret.problematic) = 2
    /\ Len(last.ret.problematic[1].reason) = 2
    /\ last.ret.problematic[2].reason = <<"unavailable">>
    /\ last.ret.rule_counts = [unused |-> 1, no_long |-> 1, unavailable |-> 1]

LaterDropped(h, now) ==
    LET Before(e) == e.ts <= now
    IN  [k \in DOMAIN h |-> SelectSeq(h[k], Before)]

(* C20: analyze_chargers with an explicit now and a supplied history map   *)
(* returns the problematic list and the rule counts that the call fetching *)
(* the history for that now returns, and the same as with the events later *)
(* than now taken out of the map; the supplied map is left as it was.       *)
C20_SuppliedHistoryAgrees ==
    (Analyzed /\ last.history # {}) =>
        /\ \E fetched \in analyze_chargers(port_status, last.rules, last.now, {}) :
              /\ fetched.problematic = last.ret.problematic
              /\ fetched.rule_counts = last.ret.rule_counts
        /\ \A h \in last.history :
           \A cut \in analyze_chargers(port_status, last.rules, last.now,
                                       {LaterDropped(h, last.now)}) :
              /\ cut.problematic = last.ret.problematic
              /\ cut.rule_counts = last.ret.rule_counts
        /\ last.ret.history = last.history

C20_Witness ==
    /\ Analyzed /\ last.history # {}
    /\ last.ret.problematic # <<>>
    /\ \E h \in last.history : \E k \in DOMAIN h : \E i \in 1..Len(h[k]) :
          h[k][i].ts > last.now
    /\ \E h \in last.history : \E k \in DOMAIN h : \E i \in 1..Len(h[k]) :
          h[k][i].ts < last.now - HistoryWindow(last.rules)

(***************************************************************************)
(* Properties of the life cycle of a job                                   *)
(***************************************************************************)
JobStatuses == {"pending", "processing", "completed", "failed"}

(* C29: the status of a job is pending, processing, completed or failed; a *)
(* step changes it only from pending to processing by dequeue, from        *)
(* processing to completed or failed by complete, or to pending by         *)
(* schedule; and complete changes no job that is not processing.           *)
C29_StatusTransitions ==
    [][/\ \A i \in JobIds(jobs') : jobs'[i].status \in JobStatuses
       /\ \A i \in JobIds(jobs) :
            /\ i \in JobIds(jobs')
            /\ jobs'[i].status # jobs[i].status =>
                 \/ /\ last'.op = "dequeue"
                    /\ jobs[i].status = "pending" /\ jobs'[i].status = "processing"
                 \/ /\ last'.op = "complete"
                    /\ jobs[i].status = "processing"
                    /\ jobs'[i].status \in {"completed", "failed"}
                 \/ /\ last'.op = "schedule"
                    /\ jobs'[i].status = "pending"
            /\ (last'.op = "complete" /\ jobs[i].status # "processing") =>
                 jobs'[i] = jobs[i]
      ]_vars

(* C30: a dequeue whose conditional UPDATE finds the selected job no longer *)
(* pending returns None and leaves every row of the table as it was.        *)
C30_LostRaceChangesNothing ==
    [][\A w \in Workers :
        (/\ dq[w].pc = "selected"
         /\ dq'[w].pc = "idle"
         /\ jobs[dq[w].job_id].status # "pending")
        => /\ jobs' = jobs
           /\ last'.op = "dequeue" /\ last'.w = w /\ last'.ret = <<>>
           /\ holding' = holding
      ]_vars

C30_Witness ==
    /\ last.op = "dequeue" /\ last.ret = <<>> /\ last.job_id # 0
    /\ jobs[last.job_id].status = "processing"
    /\ jobs[last.job_id].attempts = 1
    /\ \E v \in Workers \ {last.w} : holding[v] = {last.job_id}

(* C31: a step never returns from dequeue a job that is completed or       *)
(* failed, and a completed or failed job leaves these two statuses only by *)
(* a schedule that sets it back to pending.                                *)
C31_TerminalJobNotReturned ==
    [][\A i \in JobIds(jobs) :
        jobs[i].status \in TerminalStatuses =>
            /\ ~(last'.op = "dequeue" /\ last'.ret # <<>> /\ last'.job_id = i
                 /\ last' # last)
            /\ i \in JobIds(jobs')
            /\ jobs'[i].status \notin TerminalStatuses =>
                   (last'.op = "schedule" /\ jobs'[i].status = "pending")
      ]_vars

(* A job that was completed, then set back to pending, is returned again.  *)
C31_Witness ==
    /\ ReturnedJob
    /\ jobs[last.job_id].completed # NoTime
    /\ jobs[last.job_id].status = "processing"
    /\ jobs[last.job_id].attempts = 2

(* C37: a job is created with attempts 0; a step in which a dequeue claims *)
(* the job and returns it raises its attempts by one, and every other      *)
(* step, a schedule that sets the job back to pending included, leaves its *)
(* attempts as they are: attempts never decreases and counts the           *)
(* successful claims of the job.                                           *)
C37_AttemptsCountClaims ==
    [][/\ \A i \in JobIds(jobs) :
            /\ i \in JobIds(jobs')
            /\ jobs'[i].attempts =
                 IF /\ last'.op = "dequeue" /\ last'.ret # <<>> /\ last'.job_id = i
                    /\ jobs' # jobs
                 THEN jobs[i].attempts + 1
                 ELSE jobs[i].attempts
       /\ \A i \in JobIds(jobs') \ JobIds(jobs) : jobs'[i].attempts = 0
      ]_vars

(* A job claimed twice has been set back to pending by a schedule.         *)
C37_Witness ==
    /\ last.op = "schedule"
    /\ \E i \in JobIds(jobs) :
          /\ jobs[i].status = "pending"
          /\ jobs[i].attempts = 2
          /\ jobs[i].completed # NoTime

(* No further dequeue is taken once a job has been claimed MaxAttempts     *)
(* times.                                                                   *)
AttemptsSpent == \E i \in JobIds(jobs) : jobs[i].attempts >= MaxAttempts

(* C38: with workers that keep calling dequeue with a now at or after its  *)
(* scheduled_for, a pending job eventually becomes processing.             *)
C38_PendingJobIsClaimed ==
    \A i \in 1..MaxJobs :
        (i \in JobIds(jobs) /\ jobs[i].status = "pending")
            ~> ((i \in JobIds(jobs) /\ jobs[i].status = "processing") \/ AttemptsSpent)

(* With workers that keep polling no job stays pending for ever.           *)
PendingJobLeavesPending ==
    \A i \in 1..MaxJobs :
        (i \in JobIds(jobs) /\ jobs[i].status = "pending")
            ~> ((i \in JobIds(jobs) /\ jobs[i].status # "pending") \/ AttemptsSpent)

(* C39: the unused count of analyze_chargers with unused_days = d is the   *)
(* count _count_unused_chargers(d, now) gives for the same history         *)
(* argument and the same now.                                               *)
C39_UnusedCountsAgree ==
    Analyzed =>
        \A c \in _count_unused_chargers(port_status, last.rules.unused_days,
                                        last.now, last.history) :
            last.ret.rule_counts.unused = c

(* C40: with snapshots taken at strictly increasing times that each name a *)
(* port at most once, right after a snapshot the latest stored row of each *)
(* port it reported carries the status it reported for that port (the      *)
(* claim at t = the time of that snapshot).                                 *)
C40_StoredStatusIsReportedStatus ==
    (last.op = "save_snapshot" /\ ~twice)
    => \A i \in 1..Len(last.recs) :
          \A r \in LatestRows(port_status, last.recs[i].key) :
              /\ r.ts <= last.ts
              /\ r.status = last.recs[i].status

(***************************************************************************)
(* Properties of the statistics                                            *)
(***************************************************************************)
IsZero(fraction) == fraction = [num |-> 0, den |-> 1]

(* A fraction lies in [0, limit]. *)
Within(fraction, limit) ==
    /\ fraction.den > 0
    /\ 0 <= fraction.num
    /\ fraction.num <= limit * fraction.den

MetricsInRange(m) ==
    /\ Within(m.occupation_utilization_pct, 100)
    /\ Within(m.active_charging_utilization_pct, 100)
    /\ Within(m.availability_ratio, 1)
    /\ 0 <= m.active_seconds /\ 0 <= m.occupied_seconds
    /\ m.occupied_seconds <= m.available_seconds
    /\ m.active_seconds <= m.available_seconds
    /\ m.available_seconds <= m.monitored_seconds
    /\ m.available_seconds = 0 =>
          IsZero(m.occupation_utilization_pct) /\ IsZero(m.active_charging_utilization_pct)
    /\ m.monitored_seconds = 0 =>
          /\ IsZero(m.availability_ratio)
          /\ IsZero(m.session_count_per_day) /\ IsZero(m.session_count_per_hour)

(* The metrics a statistics call has just reported. *)
ReportedMetrics ==
    IF last.op = "stats_from_db"
    THEN {last.utilization.ports[k] : k \in DOMAIN last.utilization.ports}
         \cup {last.utilization.stations[s] : s \in DOMAIN last.utilization.stations}
         \cup {last.utilization.locations[l] : l \in DOMAIN last.utilization.locations}
         \cup {last.utilization.network}
    ELSE IF last.op = "location_usage"
    THEN UNION {{u.summary.day, u.summary.week}
                \cup {u.usage_day[i] : i \in DOMAIN u.usage_day}
                \cup {u.usage_week[i] : i \in DOMAIN u.usage_week} : u \in last.ret}
    ELSE IF last.op = "station_fingerprint"
    THEN UNION {{fp.cells[c].metrics : c \in DOMAIN fp.cells} : fp \in last.ret}
    ELSE {}

(* C21: in every port, station, location and network row, every bucket of  *)
(* a location-usage timeline and every fingerprint cell, the two           *)
(* utilization percentages lie in [0, 100] and availability_ratio in        *)
(* [0, 1] (occupied <= available, active <= available, available <=         *)
(* monitored), and a ratio whose denominator is 0 is reported as 0.         *)
C21_RatiosInRange == \A m \in ReportedMetrics : MetricsInRange(m)

C21_Witness ==
    /\ last.op = "stats_from_db"
    /\ \E k \in DOMAIN last.utilization.ports :
          /\ last.utilization.ports[k].available_seconds = 0
          /\ last.utilization.ports[k].monitored_seconds > 0
    /\ 0 < last.utilization.network.occupied_seconds
    /\ 0 < last.utilization.network.available_seconds
    /\ last.utilization.network.available_seconds
          < last.utilization.network.monitored_seconds

RowsOfStation(location_id, station_id) ==
    {r \in port_status : r.key[1] = location_id /\ r.key[2] = station_id}

(* C24: station_fingerprint returns None whenever the station has no       *)
(* stored row earlier than the end of the window.                           *)
C24_NoHistoryGivesNone ==
    last.op = "station_fingerprint" =>
        ((\A r \in RowsOfStation(last.location_id, last.station_id) :
              r.ts >= _station_fingerprint_range(last.reference)[2])
         => last.ret = {})

(* C25: every cell of a station fingerprint has a coverage_ratio in        *)
(* [0, 1], for every station, a station with a port whose id is null       *)
(* included.                                                                *)
C25_CoverageAtMostOne ==
    last.op = "station_fingerprint" =>
        \A fp \in last.ret : \A c \in DOMAIN fp.cells :
            Within(fp.cells[c].coverage_ratio, 1)

(* The maximal IN_USE runs of a list of events in ts order that overlap    *)
(* the window [start, end): begun before end and not closed by start       *)
(* (strictly), or, counting the runs that only touch the window, begun by  *)
(* end and not closed before start.                                         *)
RunsInside(events, start, end) ==
    {i \in RunStarts(events) :
        /\ events[i].ts < end
        /\ \A j \in RunClosers(events, i) : events[j].ts > start}

RunsTouching(events, start, end) ==
    {i \in RunStarts(events) :
        /\ events[i].ts <= end
        /\ \A j \in RunClosers(events, i) : events[j].ts >= start}

(* C22: the session count _compute_port_usage_between returns for a window *)
(* [start, end) is the number of maximal IN_USE runs of the port that      *)
(* overlap the window: a run begun before start and still active at start  *)
(* counts once, a run that ended before start or began after end does not  *)
(* count.  (A run that only touches a bound of the window may or may not   *)
(* be counted.)                                                             *)
C22_SessionsOverlapWindow ==
    last.op = "_compute_port_usage_between" =>
        \A totals \in last.ret :
            /\ Cardinality(RunsInside(last.events, last.start, last.end)) <= totals.sessions
            /\ totals.sessions <= Cardinality(RunsTouching(last.events, last.start, last.end))

(* The ports of station s in a history, and the events of a port that are  *)
(* not later than t.                                                        *)
StationPorts(history, s) == {k \in DOMAIN history : <<k[1], k[2]>> = s}

KnownUpTo(history, k, t) == {i \in 1..Len(history[k]) : history[k][i].ts <= t}

(* Every port of station s has, at time t, a known status in the           *)
(* unavailable set: the status of its latest event at or before t.          *)
FullyDown(history, s, t) ==
    \A k \in StationPorts(history, s) :
        /\ KnownUpTo(history, k, t) # {}
        /\ \A i \in KnownUpTo(history, k, t) :
              (\A j \in KnownUpTo(history, k, t) : j <= i)
              => history[k][i].status \in UNAVAILABLE_STATUSES

EventTimes(history, s, now) ==
    UNION {{history[k][i].ts : i \in KnownUpTo(history, k, now)} :
              k \in StationPorts(history, s)}

(* The instants at which station s becomes fully unavailable, and the end  *)
(* of the outage begun at a: the first later instant at which a port is    *)
(* outside the unavailable set, or now.                                     *)
OutageStarts(history, s, now) ==
    {a \in EventTimes(history, s, now) :
        FullyDown(history, s, a) /\ ~FullyDown(history, s, a - 1)}

OutageEnd(history, s, now, a) ==
    LET ups == {b \in EventTimes(history, s, now) : b > a /\ ~FullyDown(history, s, b)}
    IN  IF ups = {} THEN now ELSE CHOOSE b \in ups : \A c \in ups : b <= c

DurationsOf(ret, s) == IF s \in DOMAIN ret.outages THEN ret.outages[s] ELSE <<>>

(* C28: _station_outage_durations reports one duration per period during   *)
(* which every port of the station has a known status in the unavailable   *)
(* set, from the instant the station becomes fully unavailable to the      *)
(* first instant a port leaves the set, or to now; a period with only some *)
(* ports unavailable gives none; mttr_minutes is the mean of the durations *)
(* of all stations, 0 when there is none.                                   *)
C28_OutagesAreFullOutages ==
    last.op = "mttr_minutes" =>
        /\ \A s \in DOMAIN last.ret.outages :
              LET starts == OutageStarts(last.history, s, last.now)
                  d == last.ret.outages[s]
              IN  /\ Len(d) = Cardinality(starts)
                  /\ \A a \in starts :
                        d[Cardinality({b \in starts : b <= a})]
                            = OutageEnd(last.history, s, last.now, a) - a
        /\ LET d1 == DurationsOf(last.ret, <<"L1", "S1">>)
               d2 == DurationsOf(last.ret, <<"L2", "S2">>)
           IN  IF Len(d1) + Len(d2) = 0 THEN IsZero(last.ret.mttr_minutes)
               ELSE last.ret.mttr_minutes =
                        [num |-> SumSeq(d1) + SumSeq(d2), den |-> Len(d1) + Len(d2)]

C28_Witness ==
    /\ last.op = "mttr_minutes"
    /\ Cardinality(StationPorts(last.history, <<"L1", "S1">>)) = 2
    /\ Len(DurationsOf(last.ret, <<"L1", "S1">>)) = 1
    /\ \E a \in OutageStarts(last.history, <<"L1", "S1">>, last.now) :
          /\ OutageEnd(last.history, <<"L1", "S1">>, last.now, a) < last.now
          /\ \E t \in EventTimes(last.history, <<"L1", "S1">>, last.now) : t < a
    /\ last.ret.mttr_minutes.num > 0

(***************************************************************************)
(* Properties of the dashboard cache                                       *)
(***************************************************************************)

(* C27: when POST /api/refresh returns and its fetch stored new rows, the  *)
(* dashboard_version is one more than before, the cache was cleared, every *)
(* cache preset was built exactly once by the refresh and holds an entry   *)
(* of the current version, so that a dashboard request for it is served    *)
(* from the cache; when the fetch stored nothing new, the refresh built    *)
(* nothing, cleared nothing and left dashboard_version as it was.          *)
C27_RefreshRebuildsOnChange ==
    last.op = "refresh" =>
        LET presets == _cache_presets(DashboardCachePresets)
        IN  IF last.saved
            THEN /\ app.dashboard_version = last.version_before + 1
                 /\ last.cleared
                 /\ last.built = presets
                 /\ \A i \in 1..Len(presets) :
                        /\ presets[i] \in DOMAIN app.dashboard_cache
                        /\ app.dashboard_cache[presets[i]].version = app.dashboard_version
            ELSE /\ app.dashboard_version = last.version_before
                 /\ ~last.cleared
                 /\ last.built = <<>>

(***************************************************************************)
(* Properties of the readers                                               *)
(***************************************************************************)
WellFormed(table) == {r \in table : fromisoformat(r.ts) # {}}

(* C26: a reader never raises on a stored row whose timestamp cannot be    *)
(* parsed, and it loads what it would load were the row not in the table.  *)
C26_MalformedRowsAreSkipped ==
    last.op \in Readers =>
        /\ ~last.ret.raised
        /\ last.ret = ReadRows(last.op, WellFormed(last.table), last.bound)

(* C34: a dashboard request is served from the cache, without a build,     *)
(* exactly when the cache holds an entry of its key whose version is the   *)
(* current dashboard_version, and it is served the data of that entry;     *)
(* otherwise it builds and stores the data under the version it read       *)
(* before the build.                                                       *)
C34_ServedIffCurrentVersion ==
    LET cache == app.dashboard_cache
        current(k) == k \in DOMAIN cache /\ cache[k].version = app.dashboard_version
    IN  /\ (last.op = "dashboard" /\ ~last.build) =>
               /\ current(last.cache_key)
               /\ last.ret = cache[last.cache_key].data
        /\ last.op = "dashboard_miss" =>
               /\ ~current(last.cache_key)
               /\ co.get.pc = "building"
               /\ co.get.version = app.dashboard_version
        /\ (last.op = "dashboard" /\ last.build) =>
               /\ cache[last.cache_key] = [data |-> last.ret, version |-> co.get.version]
               /\ co.get.version <= app.dashboard_version

(* A request finds an entry of its key stored under an older version and   *)
(* goes on to build.                                                       *)
C34_Witness ==
    /\ last.op = "dashboard_miss"
    /\ last.cache_key \in DOMAIN app.dashboard_cache
    /\ app.dashboard_cache[last.cache_key].version < app.dashboard_version

(* C35: the step in which _fetch_once resumes after a fetch that stored a  *)
(* new row raises dashboard_version and leaves no cache entry that a       *)
(* request would be served.                                                *)
C35_StoredRowsAreSeenAsChange ==
    [][(/\ co.refresh.pc = "fetched"
        /\ co'.refresh.pc # "fetched"
        /\ co.refresh.saved)
       => /\ app'.dashboard_version > app.dashboard_version
          /\ \A k \in DOMAIN app'.dashboard_cache :
                ~CacheHit(app'.dashboard_cache, k, app'.dashboard_version)
      ]_vars

(* The data was read from a table that held what the fetch behind version  *)
(* v had committed (version 0 is that of the start, with no fetch behind). *)
ReadAfterCommit(data, v) ==
    v >= 1 => /\ v <= Len(co.refresh.raised)
              /\ data.updated >= co.refresh.raised[v]

(* C36: in every interleaving of requests, warm passes and refreshes, the  *)
(* data of a cache entry of version v, and the data a coroutine is about   *)
(* to store under v, was read after the fetch that raised                  *)
(* dashboard_version to v had committed its rows; and no step lowers       *)
(* dashboard_version.                                                      *)
C36_EntriesReadAfterCommit ==
    /\ [](/\ \A k \in DOMAIN app.dashboard_cache :
                ReadAfterCommit(app.dashboard_cache[k].data,
                                app.dashboard_cache[k].version)
          /\ \A c \in Warmers :
                co[c].pc = "storing" => ReadAfterCommit(co[c].data, co[c].version)
          /\ co.get.pc = "storing" => ReadAfterCommit(co.get.data, co.get.version)
          /\ app.dashboard_version = Len(co.refresh.raised))
    /\ [][app'.dashboard_version >= app.dashboard_version]_vars

(* Two fetches stored a row each and raised the version; the cache holds   *)
(* an entry of version 2 and, stored late by a request that began before   *)
(* the second refresh, an entry of version 1.                              *)
C36_Witness ==
    /\ app.dashboard_version = 2
    /\ co.refresh.raised = <<0, TicksPerHour>>
    /\ <<5, "day">> \in DOMAIN app.dashboard_cache
    /\ app.dashboard_cache[<<5, "day">>].version = 2
    /\ <<7, "day">> \in DOMAIN app.dashboard_cache
    /\ app.dashboard_cache[<<7, "day">>].version = 1
    /\ last.op = "dashboard" /\ last.build /\ last.cache_key = <<7, "day">>

(***************************************************************************)
(* Properties of the utilization summary                                   *)
(***************************************************************************)
TotalsFields ==
    {"sessions", "monitored_seconds", "available_seconds", "occupied_seconds",
     "active_seconds"}

RECURSIVE FieldSum(_, _, _)
FieldSum(rows, keys, f) ==
    IF keys = {} THEN 0
    ELSE LET k == CHOOSE x \in keys : TRUE
         IN  rows[k][f] + FieldSum(rows, keys \ {k}, f)

SumsOf(totals, row, rows, keys) ==
    /\ \A f \in TotalsFields :
          /\ totals[f] = FieldSum(rows, keys, f)
          /\ row[f] = FieldSum(rows, keys, f)
    /\ totals.port_count = Cardinality(keys)

(* C33: whatever the order in which the ports are merged, the totals of a  *)
(* station are the field-wise sums of the totals of its ports, those of a  *)
(* location the sums over the ports of the location and those of the       *)
(* network the sums over all ports, port_count being the number of ports   *)
(* merged; the rows of the summary carry these sums.                       *)
C33_TotalsAreSums ==
    last.op = "_utilization_summary" =>
        LET rows == last.ret.ports
            ports == DOMAIN rows
        IN  /\ DOMAIN last.totals.station_totals = {<<k[1], k[2]>> : k \in ports}
            /\ DOMAIN last.totals.location_totals = {k[1] : k \in ports}
            /\ \A s \in DOMAIN last.totals.station_totals :
                  SumsOf(last.totals.station_totals[s], last.ret.stations[s], rows,
                         {k \in ports : <<k[1], k[2]>> = s})
            /\ \A l \in DOMAIN last.totals.location_totals :
                  SumsOf(last.totals.location_totals[l], last.ret.locations[l], rows,
                         {k \in ports : k[1] = l})
            /\ SumsOf(last.totals.network_totals, last.ret.network, rows, ports)

(* The two ports of station S1 and the port of L2 all have totals, with    *)
(* different session counts and monitored times at S1, and P2 is merged    *)
(* before P1.                                                              *)
C33_Witness ==
    /\ last.op = "_utilization_summary"
    /\ DOMAIN last.ret.ports = SummaryKeys
    /\ last.order[1] = <<"L1", "S1", "P2">>
    /\ last.order[3] = <<"L1", "S1", "P1">>
    /\ last.ret.ports[<<"L1", "S1", "P1">>].sessions = 1
    /\ last.ret.ports[<<"L1", "S1", "P2">>].sessions = 0
    /\ last.ret.ports[<<"L1", "S1", "P1">>].monitored_seconds
         # last.ret.ports[<<"L1", "S1", "P2">>].monitored_seconds
    /\ last.totals.station_totals[<<"L1", "S1">>].port_count = 2
    /\ last.totals.network_totals.port_count = 3
    /\ last.totals.network_totals.sessions = 2

====
